---- MODULE Spec2Model ----
(***************************************************************************)
(* Model of the Media Sync web client (script.js, class MediaSyncApp):     *)
(* the host and peer session state, the command round trip to the backend, *)
(* the directory-path validator and the media player.                      *)
(*                                                                         *)
(* Text the code inspects character by character (directory paths, file    *)
(* names, base64 data) is a sequence of one-character strings; messages    *)
(* the code only builds and passes on are TLA+ strings.  A handler that    *)
(* awaits callRustCommand is two actions: the part up to the await, and    *)
(* the part that runs when the backend's answer arrives.                   *)
(***************************************************************************)
EXTENDS Integers, Sequences, FiniteSets, Bags, TLC

(* ------------------------------ bounds -------------------------------- *)

\* Number of commands issued to the backend in one behaviour.
MaxRequests == 2

(* ---------------------- characters and strings ------------------------ *)

Lowers == << "a","b","c","d","e","f","g","h","i","j","k","l","m",
             "n","o","p","q","r","s","t","u","v","w","x","y","z" >>

Uppers == << "A","B","C","D","E","F","G","H","I","J","K","L","M",
             "N","O","P","Q","R","S","T","U","V","W","X","Y","Z" >>

UpperSet == { Uppers[i] : i \in 1..26 }

LetterSet == { Lowers[i] : i \in 1..26 } \cup UpperSet

IsLetter(c) == c \in LetterSet

IsDigit(c) == c \in {"0","1","2","3","4","5","6","7","8","9"}

IsSpace(c) == c \in {" ", "\t"}

IsSep(c) == c \in {"/", "\\"}

IsQuote(c) == c \in {"\"", "'"}

\* String.prototype.toLowerCase on one character
ToLowerChar(c) ==
    IF c \in UpperSet
    THEN Lowers[CHOOSE i \in 1..26 : Uppers[i] = c]
    ELSE c

toLowerCase(s) == [i \in 1..Len(s) |-> ToLowerChar(s[i])]

\* String.prototype.trim
trim(s) ==
    LET keep == {i \in 1..Len(s) : ~IsSpace(s[i])}
    IN  IF keep = {} THEN << >>
        ELSE SubSeq(s, CHOOSE i \in keep : \A j \in 1..(i - 1) : j \notin keep,
                       CHOOSE i \in keep : \A j \in (i + 1)..Len(s) : j \notin keep)

\* String.prototype.includes
includes(s, sub) ==
    \E i \in 1..(Len(s) - Len(sub) + 1) : SubSeq(s, i, i + Len(sub) - 1) = sub

\* a case-insensitive search for a literal, as by /literal/i
includesIgnoreCase(s, sub) == includes(toLowerCase(s), toLowerCase(sub))

startsWith(s, pre) == Len(s) >= Len(pre) /\ SubSeq(s, 1, Len(pre)) = pre

endsWith(s, suf) ==
    Len(s) >= Len(suf) /\ SubSeq(s, Len(s) - Len(suf) + 1, Len(s)) = suf

\* directory.replace(/^["']|["']$/g, ''): one leading and one trailing quote
StripQuotes(s) ==
    LET a == IF Len(s) > 0 /\ IsQuote(s[1]) THEN 1 ELSE 0
        b == IF Len(s) > a /\ IsQuote(s[Len(s)]) THEN 1 ELSE 0
    IN  SubSeq(s, 1 + a, Len(s) - b)

\* filename.split('.').pop().toLowerCase()
Extension(filename) ==
    LET dots == {i \in 1..Len(filename) : filename[i] = "."}
        last == IF dots = {} THEN 0
                ELSE CHOOSE i \in dots : \A j \in dots : i >= j
    IN  toLowerCase(SubSeq(filename, last + 1, Len(filename)))

(* --------------------------- path validator --------------------------- *)

\* the words and folder names the code looks for or the inputs hold
Word ==
    [ media |-> << "m","e","d","i","a" >>,
      file |-> << "f","i","l","e" >>,
      selected |-> << "s","e","l","e","c","t","e","d" >>,
      testMedia |-> << "t","e","s","t","_","m","e","d","i","a" >>,
      oneDrive |-> << "O","n","e","D","r","i","v","e" >>,
      pictures |-> << "P","i","c","t","u","r","e","s" >>,
      documents |-> << "D","o","c","u","m","e","n","t","s" >>,
      downloads |-> << "D","o","w","n","l","o","a","d","s" >>,
      cUsers |-> << "C",":","\\","U","s","e","r","s","\\" >>,
      docs |-> << "d","o","c","s" >>,
      desktopDir |-> << "C",":","\\","m" >> ]

AllSpace(s, from, to) == \A i \in from..to : IsSpace(s[i])

\* /\d+\s+media\s+file/i
ReMediaFile(p) ==
    LET l == toLowerCase(p)
    IN  \E i \in 1..Len(p) :
            /\ IsDigit(p[i])
            /\ \E j \in (i + 2)..(Len(p) - 4) :
                   /\ AllSpace(p, i + 1, j - 1)
                   /\ SubSeq(l, j, j + 4) = Word.media
                   /\ \E k \in (j + 6)..(Len(p) - 3) :
                          /\ AllSpace(p, j + 5, k - 1)
                          /\ SubSeq(l, k, k + 3) = Word.file

\* /file.*selected/i
ReFileSelected(p) ==
    LET l == toLowerCase(p)
    IN  \E i \in 1..(Len(p) - 3) :
            /\ SubSeq(l, i, i + 3) = Word.file
            /\ \E j \in (i + 4)..(Len(p) - 7) : SubSeq(l, j, j + 7) = Word.selected

\* /selected/i
ReSelected(p) == includesIgnoreCase(p, Word.selected)

\* /^[^\\\/]*$/
ReNoSeparator(p) == \A i \in 1..Len(p) : ~IsSep(p[i])

invalidPatterns(p) ==
    ReMediaFile(p) \/ ReFileSelected(p) \/ ReSelected(p) \/ ReNoSeparator(p)

\* /^[a-zA-Z]:\\/
ReWinAbs(p) == Len(p) >= 3 /\ IsLetter(p[1]) /\ p[2] = ":" /\ p[3] = "\\"

\* /^[a-zA-Z]:[\/\\]/
ReWinAlt(p) == Len(p) >= 3 /\ IsLetter(p[1]) /\ p[2] = ":" /\ IsSep(p[3])

\* /^\/[^\/]/
ReUnixAbs(p) == Len(p) >= 2 /\ p[1] = "/" /\ p[2] # "/"

\* /^\.{1,2}[\/\\]/
ReRelative(p) ==
    \/ Len(p) >= 2 /\ p[1] = "." /\ IsSep(p[2])
    \/ Len(p) >= 3 /\ p[1] = "." /\ p[2] = "." /\ IsSep(p[3])

\* /^[^\/\\]+[\/\\]/
ReFolderSep(p) == Len(p) >= 2 /\ ~IsSep(p[1]) /\ \E i \in 2..Len(p) : IsSep(p[i])

\* /test_media$/
ReTestMedia(p) == endsWith(p, Word.testMedia)

\* /^.*[\/\\].*[\/\\]/
ReTwoSeparators(p) ==
    \E i \in 1..Len(p) : IsSep(p[i]) /\ \E j \in (i + 1)..Len(p) : IsSep(p[j])

\* /^[a-zA-Z]:\\.*\\.*$/
ReWinLevels(p) == ReWinAbs(p) /\ \E i \in 4..Len(p) : p[i] = "\\"

\* /^C:\\Users\\.*\\.*$/
ReWinUsers(p) == startsWith(p, Word.cUsers) /\ \E i \in 10..Len(p) : p[i] = "\\"

\* the path shapes without the Downloads folder
pathLikePatternsNoDownloads(p) ==
    \/ ReWinAbs(p) \/ ReWinAlt(p) \/ ReUnixAbs(p) \/ ReRelative(p)
    \/ ReFolderSep(p) \/ ReTestMedia(p) \/ ReTwoSeparators(p)
    \/ ReWinLevels(p) \/ ReWinUsers(p)
    \/ includesIgnoreCase(p, Word.oneDrive) \/ includesIgnoreCase(p, Word.pictures)
    \/ includesIgnoreCase(p, Word.documents)

pathLikePatterns(p) ==
    \/ ReWinAbs(p) \/ ReWinAlt(p) \/ ReUnixAbs(p) \/ ReRelative(p)
    \/ ReFolderSep(p) \/ ReTestMedia(p) \/ ReTwoSeparators(p)
    \/ ReWinLevels(p) \/ ReWinUsers(p)
    \/ includesIgnoreCase(p, Word.oneDrive) \/ includesIgnoreCase(p, Word.pictures)
    \/ includesIgnoreCase(p, Word.documents) \/ includesIgnoreCase(p, Word.downloads)

\* a separator test that also takes a blank for a separator
hasPathSeparatorsOrBlanks(p) == \E i \in 1..Len(p) : IsSep(p[i]) \/ IsSpace(p[i])

hasPathSeparators(p) == \E i \in 1..Len(p) : IsSep(p[i])

\* a length test that asks for one character more
isLongEnoughFive(p) == Len(p) > 4

isLongEnough(p) == Len(p) > 3

\* a validator that looks for a path shape before the display-text patterns
isValidDirectoryPathShapesFirst(path) ==
    IF Len(path) = 0 THEN FALSE
    ELSE LET p == trim(path)
         IN  IF pathLikePatterns(p) \/ (hasPathSeparators(p) /\ isLongEnough(p))
             THEN TRUE
             ELSE ~(invalidPatterns(p) /\ Len(p) < 10)

\* isValidDirectoryPath(path), for a string argument
isValidDirectoryPath(path) ==
    IF Len(path) = 0 THEN FALSE
    ELSE LET p == trim(path)
         IN  IF invalidPatterns(p) /\ Len(p) < 10 THEN FALSE
             ELSE pathLikePatterns(p) \/ (hasPathSeparators(p) /\ isLongEnough(p))

\* a JavaScript value handed to isValidDirectoryPath: a string, or a value
\* of another type (undefined, null, a number, an array of characters)
Str(s)  == [t |-> "string", v |-> s]
Other(t, s) == [t |-> t, v |-> s]

\* isValidDirectoryPath(path), for a value of any type
isValidDirectoryPathOf(x) ==
    IF x.t # "string" THEN FALSE ELSE isValidDirectoryPath(x.v)

(* ------------------------------ MIME types ---------------------------- *)

\* the extensions the code names, as lowercased strings without the dot
Ext ==
    [ mp4 |-> << "m","p","4" >>,
      avi |-> << "a","v","i" >>,
      mkv |-> << "m","k","v" >>,
      mov |-> << "m","o","v" >>,
      webm |-> << "w","e","b","m" >>,
      mp3 |-> << "m","p","3" >>,
      wav |-> << "w","a","v" >>,
      flac |-> << "f","l","a","c" >>,
      ogg |-> << "o","g","g" >>,
      aac |-> << "a","a","c" >>,
      jpg |-> << "j","p","g" >>,
      jpeg |-> << "j","p","e","g" >>,
      png |-> << "p","n","g" >>,
      gif |-> << "g","i","f" >>,
      bmp |-> << "b","m","p" >>,
      webp |-> << "w","e","b","p" >>,
      wmv |-> << "w","m","v" >>,
      flv |-> << "f","l","v" >>,
      m4v |-> << "m","4","v" >>,
      m4a |-> << "m","4","a" >>,
      wma |-> << "w","m","a" >>,
      svg |-> << "s","v","g" >>,
      tiff |-> << "t","i","f","f" >>,
      txt |-> << "t","x","t" >> ]

\* a getMimeType whose switch statements fall back on the generic type
getMimeTypeGenericDefault(mediaType, filename) ==
    LET extension == Extension(filename)
    IN  IF mediaType = "video" THEN
            CASE extension = Ext.mp4  -> "video/mp4"
              [] extension = Ext.avi  -> "video/x-msvideo"
              [] extension = Ext.mkv  -> "video/x-matroska"
              [] extension = Ext.mov  -> "video/quicktime"
              [] extension = Ext.webm -> "video/webm"
              [] OTHER             -> "application/octet-stream"
        ELSE IF mediaType = "audio" THEN
            CASE extension = Ext.mp3  -> "audio/mpeg"
              [] extension = Ext.wav  -> "audio/wav"
              [] extension = Ext.flac -> "audio/flac"
              [] extension = Ext.ogg  -> "audio/ogg"
              [] extension = Ext.aac  -> "audio/aac"
              [] OTHER             -> "application/octet-stream"
        ELSE IF mediaType = "image" THEN
            CASE extension = Ext.jpg  -> "image/jpeg"
              [] extension = Ext.jpeg -> "image/jpeg"
              [] extension = Ext.png  -> "image/png"
              [] extension = Ext.gif  -> "image/gif"
              [] extension = Ext.bmp  -> "image/bmp"
              [] extension = Ext.webp -> "image/webp"
              [] OTHER             -> "image/jpeg"
        ELSE "application/octet-stream"

\* getMimeType(mediaType, filename)
getMimeType(mediaType, filename) ==
    LET extension == Extension(filename)
    IN  IF mediaType = "video" THEN
            CASE extension = Ext.mp4  -> "video/mp4"
              [] extension = Ext.avi  -> "video/x-msvideo"
              [] extension = Ext.mkv  -> "video/x-matroska"
              [] extension = Ext.mov  -> "video/quicktime"
              [] extension = Ext.webm -> "video/webm"
              [] OTHER             -> "video/mp4"
        ELSE IF mediaType = "audio" THEN
            CASE extension = Ext.mp3  -> "audio/mpeg"
              [] extension = Ext.wav  -> "audio/wav"
              [] extension = Ext.flac -> "audio/flac"
              [] extension = Ext.ogg  -> "audio/ogg"
              [] extension = Ext.aac  -> "audio/aac"
              [] OTHER             -> "audio/mpeg"
        ELSE IF mediaType = "image" THEN
            CASE extension = Ext.jpg  -> "image/jpeg"
              [] extension = Ext.jpeg -> "image/jpeg"
              [] extension = Ext.png  -> "image/png"
              [] extension = Ext.gif  -> "image/gif"
              [] extension = Ext.bmp  -> "image/bmp"
              [] extension = Ext.webp -> "image/webp"
              [] OTHER             -> "image/jpeg"
        ELSE "application/octet-stream"

(* ------------------------ media kinds and filter ---------------------- *)

\* getMediaTypeFromFilename(filename)
getMediaTypeFromFilename(filename) ==
    LET extension == Extension(filename)
    IN  IF extension \in { Ext.mp4, Ext.avi, Ext.mkv, Ext.mov, Ext.webm } THEN "video"
        ELSE IF extension \in { Ext.mp3, Ext.wav, Ext.flac, Ext.ogg, Ext.aac } THEN "audio"
        ELSE IF extension \in { Ext.jpg, Ext.jpeg, Ext.png, Ext.gif, Ext.bmp, Ext.webp } THEN "image"
        ELSE "unknown"

\* the three groups of the mediaExtensions list of filterMediaFiles
videoExtensions == { Ext.mp4, Ext.avi, Ext.mkv, Ext.mov, Ext.webm, Ext.wmv, Ext.flv, Ext.m4v }
audioExtensions == { Ext.mp3, Ext.wav, Ext.flac, Ext.ogg, Ext.aac, Ext.m4a, Ext.wma }
imageExtensions == { Ext.jpg, Ext.jpeg, Ext.png, Ext.gif, Ext.bmp, Ext.webp, Ext.svg, Ext.tiff }

mediaExtensions == videoExtensions \cup audioExtensions \cup imageExtensions

\* a File of a file input: its name, its webkitRelativePath ('' when the
\* file was not picked through a folder) and its path (<< >> where the
\* browser gives none)
File(name, webkitRelativePath, path) ==
    [name |-> name, webkitRelativePath |-> webkitRelativePath, path |-> path]

\* a filter that keeps the files the classifier knows
filterMediaFilesByMediaType(files) ==
    LET known(file) == getMediaTypeFromFilename(file.name) # "unknown"
    IN  SelectSeq(files, known)

\* filterMediaFiles(files)
filterMediaFiles(files) ==
    LET keep(file) == Extension(file.name) \in mediaExtensions
    IN  SelectSeq(files, keep)

(* --------------------------- file selection -------------------------- *)

\* what a selection handler leaves behind: the value it assigns to the
\* directory input (assigned is false where it leaves the input alone),
\* the type of the notification it shows and the levels it logs at
Report(value, notification, logged) ==
    [assigned |-> TRUE, value |-> value, notification |-> notification,
     logged |-> logged]

\* s.split('/')[0], for a string with a '/'
FirstPart(s) ==
    LET first == CHOOSE i \in 1..Len(s) : s[i] = "/" /\ \A j \in 1..(i - 1) : s[j] # "/"
    IN  SubSeq(s, 1, first - 1)

\* pathParts = path.split(/[\/\\]/); pathParts.pop(); pathParts.join('\\'),
\* for a string with a separator
DirectoryPart(path) ==
    LET last == CHOOSE i \in 1..Len(path) :
                    IsSep(path[i]) /\ \A j \in (i + 1)..Len(path) : ~IsSep(path[j])
    IN  [i \in 1..(last - 1) |-> IF IsSep(path[i]) THEN "\\" ELSE path[i]]

\* showFileSelectionWarning(mediaFiles)
showFileSelectionWarning(mediaFiles) ==
    Report(<< >>, "warning", { "info", "warning" })

\* handleDirectorySelection(files), for a batch that is not empty
handleDirectorySelection(files) ==
    LET firstPath == IF files[1].webkitRelativePath # << >>
                     THEN files[1].webkitRelativePath ELSE files[1].name
    IN  IF includes(firstPath, << "/" >>)
        THEN Report(FirstPart(firstPath), "success", { "info" })
        ELSE Report(<< >>, "warning", { "info", "warning" })

\* handleIndividualFiles(files)
handleIndividualFiles(files) ==
    LET mediaFiles == filterMediaFiles(files)
    IN  IF Len(mediaFiles) = 0
        THEN [Report(<< >>, "warning", { "warning" }) EXCEPT !.assigned = FALSE]
        ELSE LET firstFile == mediaFiles[1]
             IN  IF includes(firstFile.webkitRelativePath, << "/" >>)
                 THEN Report(FirstPart(firstFile.webkitRelativePath), "success", { "info" })
                 ELSE IF \E i \in 1..Len(firstFile.path) : IsSep(firstFile.path[i])
                 THEN Report(DirectoryPart(firstFile.path), "success", { "info" })
                 ELSE showFileSelectionWarning(mediaFiles)

\* the body of handleFileSelection after this.selectedFiles is stored
handleSelection(selectionType, files) ==
    IF selectionType = "directory"
    THEN handleDirectorySelection(files)
    ELSE handleIndividualFiles(files)

(* ------------------------------- base64 ------------------------------- *)

Base64Alphabet == Uppers \o Lowers \o
    << "0","1","2","3","4","5","6","7","8","9","+","/" >>

\* atob drops one or two trailing '=' of a string whose length is a
\* multiple of four
Base64Unpad(d) ==
    IF Len(d) > 0 /\ Len(d) % 4 = 0 /\ d[Len(d)] = "="
    THEN IF Len(d) > 1 /\ d[Len(d) - 1] = "="
         THEN SubSeq(d, 1, Len(d) - 2)
         ELSE SubSeq(d, 1, Len(d) - 1)
    ELSE d

\* atob(data) throws InvalidCharacterError on these
atobThrows(d) ==
    LET u == Base64Unpad(d)
    IN  \/ Len(u) % 4 = 1
        \/ \E i \in 1..Len(u) : \A k \in 1..64 : Base64Alphabet[k] # u[i]

\* the bytes[] that loadMediaInPlayer fills from atob(data)
atob(d) ==
    LET u == Base64Unpad(d)
        value(c) == (CHOOSE k \in 1..64 : Base64Alphabet[k] = c) - 1
        sextet(i) == IF i <= Len(u) THEN value(u[i]) ELSE 0
        group(g) == sextet(4 * g + 1) * 262144 + sextet(4 * g + 2) * 4096
                    + sextet(4 * g + 3) * 64 + sextet(4 * g + 4)
        byte(k) == LET g == (k - 1) \div 3
                       r == (k - 1) % 3
                   IN  (group(g) \div (IF r = 0 THEN 65536
                                       ELSE IF r = 1 THEN 256 ELSE 1)) % 256
    IN  [k \in 1..((Len(u) * 6) \div 8) |-> byte(k)]

(* ------------------------- values from the backend -------------------- *)

\* a string field that is not there
NoValue == "<undefined>"

\* `x || fallback` on a string field
OrElse(x, fallback) == IF x = NoValue \/ x = "" THEN fallback ELSE x

\* the `files` field of a response: undefined, an array, or something else
Undefined == [t |-> "undefined", v |-> << >>]
Arr(s)    == [t |-> "array", v |-> s]
NonArray  == [t |-> "object", v |-> << >>]

\* `files || []`
OrEmptyArray(x) == IF x.t = "undefined" THEN Arr(<< >>) ELSE x

\* the elements of a listing: a MediaFile object, a file name, or null
JSFile(name, size) == [k |-> "object", name |-> name, size |-> size]
JSString(name)     == [k |-> "string", name |-> name, size |-> 0]
JSNull             == [k |-> "null", name |-> << >>, size |-> 0]

\* the mediaData field of a request-media response
MediaData(filename, data, mediaType) ==
    [present |-> TRUE, filename |-> filename, data |-> data, mediaType |-> mediaType]

NoMediaData == [present |-> FALSE, filename |-> << >>, data |-> << >>, mediaType |-> NoValue]

\* the data mapping of a response body; present = FALSE when the body has
\* no data field.  success and error are keys the mapping may itself hold.
Data(files, mediaData) ==
    [present |-> TRUE, files |-> files, mediaData |-> mediaData,
     success |-> NoValue, error |-> NoValue]

NoData ==
    [present |-> FALSE, files |-> Undefined, mediaData |-> NoMediaData,
     success |-> NoValue, error |-> NoValue]

\* what fetch('/api') comes back with
NetworkFailure == [t |-> "network", status |-> 0,
                   body |-> [success |-> FALSE, error |-> NoValue, data |-> NoData]]
HttpStatus(code) == [t |-> "http", status |-> code,
                     body |-> [success |-> FALSE, error |-> NoValue, data |-> NoData]]
BadJson == [t |-> "badjson", status |-> 200,
            body |-> [success |-> FALSE, error |-> NoValue, data |-> NoData]]
Body(success, error, data) ==
    [t |-> "body", status |-> 200,
     body |-> [success |-> success, error |-> error, data |-> data]]

\* the object callRustCommand resolves to
Failure(message) ==
    [success |-> FALSE, error |-> message, files |-> Undefined,
     mediaData |-> NoMediaData]

\* { success: result.success, ...result.data }
Spread(result) ==
    LET d == result.data
    IN  [success   |-> IF d.present /\ d.success # NoValue
                       THEN d.success = "true" ELSE result.success,
         error     |-> IF d.present THEN d.error ELSE NoValue,
         files     |-> IF d.present THEN d.files ELSE Undefined,
         mediaData |-> IF d.present THEN d.mediaData ELSE NoMediaData]

\* a channel that reports every HTTP failure with the same text
callRustCommandNoStatus(outcome) ==
    IF outcome.t = "network" THEN Failure("Failed to fetch")
    ELSE IF outcome.t = "http" THEN Failure("HTTP error!")
    ELSE IF outcome.t = "badjson" THEN Failure("Unexpected end of JSON input")
    ELSE LET result == outcome.body
         IN  IF ~result.success /\ OrElse(result.error, NoValue) # NoValue
             THEN Failure(result.error)
             ELSE Spread(result)

\* callRustCommand(command, params), given what the fetch came back with
callRustCommand(outcome) ==
    IF outcome.t = "network" THEN Failure("Failed to fetch")
    ELSE IF outcome.t = "http"
    THEN Failure("HTTP error! status: " \o ToString(outcome.status))
    ELSE IF outcome.t = "badjson" THEN Failure("Unexpected end of JSON input")
    ELSE LET result == outcome.body
         IN  IF ~result.success /\ OrElse(result.error, NoValue) # NoValue
             THEN Failure(result.error)
             ELSE Spread(result)

(* ------------------------------ inputs -------------------------------- *)

\* parseInt(port): the value of the leading digits; NaN is shown as -1
RECURSIVE DigitsValue(_, _)
DigitsValue(s, acc) ==
    IF Len(s) = 0 \/ ~IsDigit(s[1]) THEN acc
    ELSE LET digit == CHOOSE d \in 0..9 : ToString(d) = s[1]
         IN  DigitsValue(Tail(s), acc * 10 + digit)

parseInt(s) ==
    LET t == trim(s)
    IN  IF Len(t) = 0 \/ ~IsDigit(t[1]) THEN -1 ELSE DigitsValue(t, 0)

\* texts typed into the media-directory field
Dir ==
    [ media |-> << "C",":","\\","M","e","d","i","a" >>,
      quoted |-> << "\"",".","/","m","e","d","i","a","\"" >>,
      abc |-> << "a","b","c" >>,
      quotedBlank |-> << "'"," ","'" >>,
      useTestMedia |-> << "f",":","\\","s","o","f","t","w","a","r","e","\\" >> \o Word.testMedia ]

\* file names of listings, requests and selections
FileName ==
    [ a |-> << "a",".","m","p","4" >>,
      b |-> << "b",".","M","P","3" >>,
      c |-> << "c",".","j","p","g" >>,
      d |-> << "d",".","b","i","n" >>,
      txt |-> << "b",".","t","x","t" >>,
      wmv |-> << "c","l","i","p",".","w","m","v" >> ]

\* what the user and the callers hand to the handlers: the port field (a
\* number input: empty, or the text of a floating-point number, which may
\* begin with its decimal point), the media-directory field, the
\* server-address and client-id fields, the file name of a button, the
\* mediaType of getMimeType and the selectionType of the three file inputs
Inputs ==
    [ port          |-> { << >>, << "8","0","8","0" >>, << ".","5" >> },
      directory     |-> { << >>, Dir.quotedBlank, Dir.quoted },
      address       |-> { "", "127.0.0.1:8080" },
      clientId      |-> { "", "client1" },
      filename      |-> { FileName.a },
      mediaType     |-> { "video", "audio", "image", "unknown", "document" },
      selectionType |-> { "general", "directory", "files" } ]

\* base64 payloads: "QQ==" is one byte, "QUJD" three, "QQ=" cannot be decoded
Payload ==
    [ oneByte |-> << "Q","Q","=","=" >>,
      three |-> << "Q","U","J","D" >>,
      broken |-> << "Q","Q","=" >> ]

\* the directory of the documented scenario: a.mp4, b.txt and c.jpg
ScenarioDirectory ==
    << JSFile(FileName.a, 1024), JSFile(FileName.txt, 10), JSFile(FileName.c, 0) >>

\* the listing the backend makes of a directory for start-server: the
\* entries of a recognised kind, in the order of the directory
listDirectory(entries) ==
    LET recognised(entry) == Extension(entry.name) \in mediaExtensions
    IN  SelectSeq(entries, recognised)

\* the listings a start-server answer may carry
StartListings ==
    { Undefined,
      Arr(listDirectory(ScenarioDirectory)),
      Arr(<< JSFile(FileName.b, 2048) >>),
      Arr(<< JSNull >>) }

\* answers every command may get
CommonOutcomes ==
    { NetworkFailure, HttpStatus(500), BadJson,
      Body(FALSE, "backend refused", NoData),
      Body(FALSE, NoValue, NoData),
      Body(TRUE, NoValue, NoData),
      Body(TRUE, NoValue, [Data(Undefined, NoMediaData) EXCEPT !.success = "false"]) }

\* the answers a command may get: the common ones and a success with the
\* listings a connect-client answer or the payloads a request-media
\* answer may carry
Outcomes(command) ==
    LET ConnectListings ==
            { Undefined,
              Arr(<< JSString(FileName.a), JSString(FileName.c) >>),
              Arr(<< JSString(FileName.b) >>),
              NonArray }
        MediaPayloads ==
            { NoMediaData,
              MediaData(FileName.a, Payload.three, "video"),
              MediaData(FileName.b, Payload.oneByte, "audio"),
              MediaData(FileName.c, Payload.oneByte, "image"),
              MediaData(FileName.d, Payload.oneByte, "unknown"),
              MediaData(FileName.a, Payload.broken, "video") }
    IN
    CommonOutcomes \cup
    CASE command = "start-server" ->
            { Body(TRUE, NoValue, Data(l, NoMediaData)) : l \in StartListings }
      [] command = "connect-client" ->
            { Body(TRUE, NoValue, Data(l, NoMediaData)) : l \in ConnectListings }
      [] command = "request-media" ->
            { Body(TRUE, NoValue, Data(Undefined, m)) : m \in MediaPayloads }
      [] OTHER -> { Body(TRUE, NoValue, Data(Undefined, NoMediaData)) }

\* the six commands of the interface
Commands ==
    { "start-server", "stop-server", "stream-media",
      "connect-client", "disconnect-client", "request-media" }

\* what fetch('/api') may come back with, whatever the command; the data
\* mappings of a response body include mappings that hold a key named
\* success or error themselves
ChannelOutcomes ==
    LET ChannelData ==
            { NoData,
              Data(Undefined, NoMediaData),
              Data(Arr(<< JSString(FileName.a) >>), NoMediaData),
              Data(Undefined, MediaData(FileName.a, Payload.three, "video")),
              [Data(Undefined, NoMediaData) EXCEPT !.success = "true"],
              [Data(Undefined, NoMediaData) EXCEPT !.success = "false"],
              [Data(Undefined, NoMediaData) EXCEPT !.error = "inner error"] }
    IN  { NetworkFailure, BadJson }
        \cup { HttpStatus(code) : code \in {400, 404, 500, 503} }
        \cup { Body(success, error, data) :
                 success \in BOOLEAN,
                 error \in {NoValue, "", "backend refused"},
                 data \in ChannelData }

\* Longest string over the alphabet handed to the path validator.
MaxPathLen == 4

RECURSIVE StringsUpTo(_)
StringsUpTo(n) ==
    IF n = 0 THEN { << >> }
    ELSE LET shorter == StringsUpTo(n - 1)
             PathAlphabet == { "a", "C", ":", "/", "\\", ".", " " }
         IN  shorter \cup { Append(s, c) : s \in shorter, c \in PathAlphabet }

\* the paths and texts named in the documentation
Example ==
    [ dotMedia |-> << ".","/" >> \o Word.media,
      home |-> << "/","h","o","m","e","/","u","s","e","r","/" >> \o Word.media,
      pictures |-> Word.cUsers \o << "N","a","m","e","\\" >> \o Word.pictures,
      threeFiles |-> << "3"," " >> \o Word.media \o << " " >> \o Word.file \o << "s"," " >> \o Word.selected,
      oneFile |-> << "1"," " >> \o Word.media \o << " " >> \o Word.file ]

\* the strings handed to the path validator: every string over the
\* alphabet, the words the validator looks for with something before or
\* after them, and the documented examples
PathStrings ==
    LET PathWords ==
            { Word.selected, toLowerCase(Word.documents), Word.testMedia, Word.oneDrive, Word.pictures,
              Word.documents, Word.downloads, << "S","E","L","E","C","T","E","D" >> }
        PathAffixes ==
            { << >>, << "/" >>, << "\\" >>, << "1" >>, << "1","2" >>, << " " >> }
    IN  StringsUpTo(MaxPathLen)
        \cup { pre \o w \o post : pre \in PathAffixes, w \in PathWords, post \in PathAffixes }
        \cup { Dir.useTestMedia, Example.dotMedia, Example.home, Example.pictures, Dir.abc,
               Example.threeFiles, Example.oneFile }

\* the values handed to the path validator
PathValues ==
    { Str(s) : s \in PathStrings }
    \cup { Other("undefined", << >>), Other("null", << >>), Other("number", << >>),
           Other("object", Example.dotMedia) }

\* Longest batch of files handed to filterMediaFiles.
MaxBatch == 3

\* the filenames handed to the classifier and to getMimeType: one for each
\* extension, in lower and in upper case, one with two dots, one with none
ClassifiedNames ==
    { << "x","." >> \o e : e \in mediaExtensions \cup { Ext.txt, << "b","i","n" >>, << >> } }
    \cup { << "x",".","t","x","t","." >> \o e : e \in { Ext.mp4, Ext.txt } }
    \cup { FileName.b, << "X",".","A","V","I" >>, << "P",".","P","n","g" >>, Ext.mp4, << "x" >> }

\* the batches of files handed to filterMediaFiles
RECURSIVE BatchesUpTo(_)
BatchesUpTo(n) ==
    IF n = 0 THEN { << >> }
    ELSE LET shorter == BatchesUpTo(n - 1)
             BatchFiles ==
                 { File(f, << >>, << >>) :
                       f \in { FileName.a, FileName.b, FileName.d, FileName.wmv } }
         IN  shorter \cup { Append(b, f) : b \in shorter, f \in BatchFiles }

\* the files of one selection all come from one input: picked one by one
\* (no path at all), picked as the folder docs, or picked where the
\* browser gives the full path
Picked(kind, name) ==
    CASE kind = "plain"   -> File(name, << >>, << >>)
      [] kind = "folder"  -> File(name, Word.docs \o << "/" >> \o name, << >>)
      [] kind = "album"   -> File(name, Word.testMedia \o << "/" >> \o name, << >>)
      [] kind = "desktop" -> File(name, << >>, Word.desktopDir \o << "/" >> \o name)

\* the names of the files of a selection
RECURSIVE NamesUpTo(_)
NamesUpTo(n) ==
    IF n = 0 THEN { << >> }
    ELSE LET shorter == NamesUpTo(n - 1)
             SelectedNames == { FileName.a, FileName.txt, FileName.wmv }
         IN  shorter \cup { Append(b, f) : b \in shorter, f \in SelectedNames }

\* the batches a file input hands to handleFileSelection
Selections ==
    { [i \in 1..Len(names) |-> Picked(kind, names[i])] :
          kind \in { "plain", "folder", "desktop" }, names \in NamesUpTo(MaxBatch) }

\* Most notification elements on the page at a time.
MaxNotifications == 2

(* ------------------------------- state -------------------------------- *)

VARIABLES
    serverRunning,        \* this.serverRunning
    loadedFiles,          \* this.loadedFiles
    connectedClients,     \* this.connectedClients
    clientConnected,      \* this.clientConnected
    availableFiles,       \* this.availableFiles
    mediaDirectoryInput,  \* value of the media-directory field
    startServerBtn,       \* disabled flag of each button
    stopServerBtn,
    connectClientBtn,
    disconnectClientBtn,
    playerControls,       \* disabled flags of playBtn, pauseBtn, stopBtn
    mediaPlayerContainer, \* what the player shows, and its media element
    objectURLs,           \* object URLs created and not revoked
    pending,              \* commands sent to the backend and not yet answered
    issued,               \* number of commands sent so far
    event,                \* what the last handler run reported
    lastResponse,         \* the response object the last resumed handler got
    before,               \* the session when the last handler run began
    channel,              \* a callRustCommand call followed on its own
    call,                 \* a call of a helper or selection method followed on its own
    selectedFiles,        \* this.selectedFiles
    notifications         \* the notification elements of document.body

hostVars   == << serverRunning, loadedFiles, connectedClients >>
peerVars   == << clientConnected, availableFiles >>
playerVars == << mediaPlayerContainer, playerControls, objectURLs >>
hostBtns   == << startServerBtn, stopServerBtn >>
peerBtns   == << connectClientBtn, disconnectClientBtn >>

vars == << serverRunning, loadedFiles, connectedClients, clientConnected,
           availableFiles, mediaDirectoryInput, startServerBtn, stopServerBtn,
           connectClientBtn, disconnectClientBtn, playerControls,
           mediaPlayerContainer, objectURLs, pending, issued, event,
           lastResponse, before, channel, call, selectedFiles, notifications >>

\* the session state and the controls, as one value
Session ==
    [serverRunning |-> serverRunning, loadedFiles |-> loadedFiles,
     connectedClients |-> connectedClients, clientConnected |-> clientConnected,
     availableFiles |-> availableFiles,
     mediaPlayerContainer |-> mediaPlayerContainer,
     startServerBtn |-> startServerBtn, stopServerBtn |-> stopServerBtn,
     connectClientBtn |-> connectClientBtn,
     disconnectClientBtn |-> disconnectClientBtn,
     playerControls |-> playerControls, objectURLs |-> objectURLs]

\* no handler has resumed: there is no response object
NoResponse == [success |-> FALSE, files |-> Undefined,
               mediaData |-> NoMediaData, received |-> FALSE]

\* the fields of the response object that the resumed handler branches on
Received(r) == [success |-> r.success, files |-> r.files,
                mediaData |-> r.mediaData, received |-> TRUE]

\* what a handler run reported: the outcome is "invalid" (input refused),
\* "submitted" (command sent, handler suspended at its await), "success",
\* "error" (the catch block ran), "done" (a handler without a command)
Event(op, outcome, notification, logged, message) ==
    [op |-> op, outcome |-> outcome, notification |-> notification,
     logged |-> logged]

\* no callRustCommand call is being followed
NoCall == [phase |-> "idle"]

\* a handler whose catch block lets the error go on to its caller
CatchRethrows(op, message) == Event(op, "thrown", "none", {}, message)

\* catch (error) { logMessage(..., 'error'); showNotification(..., 'error') }
Catch(op, message) == Event(op, "error", "error", {"error"}, message)

\* a handler run that logged and notified nothing
NoReport == Event("none", "done", "none", {}, "")

(* ------------------------------- player ------------------------------- *)

\* the placeholder of index.html and of clearMediaPlayer
Placeholder ==
    [content |-> "placeholder", type |-> NoValue, src |-> 0, bytes |-> << >>,
     autoplay |-> FALSE, playback |-> "none", currentTime |-> 0]

\* the same element, the <audio> tag written without the autoplay attribute
PlayerElementAudioNoAutoplay(mediaType, filename, url, bytes) ==
    LET content == IF mediaType \in {"video", "audio", "image"}
                   THEN mediaType ELSE "empty"
    IN  [content |-> content,
         type |-> IF content = "empty" THEN NoValue
                  ELSE getMimeType(mediaType, filename),
         src |-> IF content = "empty" THEN 0 ELSE url,
         bytes |-> IF content = "empty" THEN << >> ELSE bytes,
         autoplay |-> mediaType = "video",
         playback |-> IF mediaType \in {"video", "audio"} THEN "loaded" ELSE "none",
         currentTime |-> 0]

\* the element loadMediaInPlayer writes into the container: <video autoplay>,
\* <audio autoplay>, <img>, or nothing for any other mediaType
PlayerElement(mediaType, filename, url, bytes) ==
    LET isMedia == mediaType \in {"video", "audio"}
        content == IF mediaType \in {"video", "audio", "image"}
                   THEN mediaType ELSE "empty"
    IN  [content |-> content,
         type |-> IF content = "empty" THEN NoValue
                  ELSE getMimeType(mediaType, filename),
         src |-> IF content = "empty" THEN 0 ELSE url,
         bytes |-> IF content = "empty" THEN << >> ELSE bytes,
         autoplay |-> isMedia,
         playback |-> IF isMedia THEN "loaded" ELSE "none",
         currentTime |-> 0]

\* an element that waits for the play control
AutoplayOff(c) == c

\* an element inserted with the autoplay attribute starts playing
Autoplay(c) ==
    IF c.autoplay /\ c.playback = "loaded"
    THEN [c EXCEPT !.playback = "playing"] ELSE c

\* mediaPlayerContainer.querySelector('video, audio') finds an element
HasMedia(c) == c.content \in {"video", "audio"}

\* the playback lifecycle state the container is in
PlaybackState(c) ==
    CASE c.content = "placeholder" -> "Idle"
      [] c.playback = "playing"    -> "Playing"
      [] c.playback = "paused"     -> "Paused"
      [] c.playback = "stopped"    -> "Stopped"
      [] OTHER                     -> "Loaded"

\* loadMediaInPlayer throws before it changes anything: mediaData is
\* undefined, or atob rejects the data
loadMediaThrows(mediaData) == ~mediaData.present \/ atobThrows(mediaData.data)

\* the container after loadMediaInPlayer(mediaData)
loadMediaInPlayer(mediaData, url) ==
    Autoplay(PlayerElement(mediaData.mediaType, mediaData.filename, url,
                           atob(mediaData.data)))

\* updatePlayerControls that leaves the stop control disabled
updatePlayerControlsKeepsStop(enabled) ==
    [playBtn |-> ~enabled, pauseBtn |-> ~enabled, stopBtn |-> TRUE]

\* updatePlayerControls(enabled)
updatePlayerControls(enabled) ==
    [playBtn |-> ~enabled, pauseBtn |-> ~enabled, stopBtn |-> ~enabled]

\* updateLoadedFiles throws when loadedFiles is no array (no map method) or
\* holds a null (file.name)
updateLoadedFilesThrows(files) ==
    files.t = "object" \/ \E i \in 1..Len(files.v) : files.v[i].k = "null"

\* updateAvailableFiles throws when availableFiles is no array
updateAvailableFilesThrows(files) == files.t = "object"

(* ---------------------------- construction ---------------------------- *)

Init ==
    /\ serverRunning = FALSE
    /\ loadedFiles = Arr(<< >>)
    /\ connectedClients = Arr(<< >>)
    /\ clientConnected = FALSE
    /\ availableFiles = Arr(<< >>)
    /\ mediaDirectoryInput = << >>
    /\ startServerBtn = FALSE
    /\ stopServerBtn = TRUE
    /\ connectClientBtn = FALSE
    /\ disconnectClientBtn = TRUE
    /\ playerControls = updatePlayerControls(FALSE)
    /\ mediaPlayerContainer = Placeholder
    /\ objectURLs = 0
    /\ pending = EmptyBag
    /\ issued = 0
    /\ event = Event("constructor", "done", "none", {"info"}, "Application initialized")
    /\ lastResponse = NoResponse
    /\ before = Session
    /\ channel = NoCall
    /\ call = NoCall
    /\ selectedFiles = << >>
    /\ notifications = [n \in 1..MaxNotifications |-> "none"]

(* --------------------------- command channel -------------------------- *)

\* a call that counts the command and never sends it
SubmitNothing(command, params) ==
    /\ issued < MaxRequests
    /\ issued' = issued + 1
    /\ pending' = pending

\* fetch('/api', {command, params}) has been called
Submit(command, params) ==
    /\ issued < MaxRequests
    /\ issued' = issued + 1
    /\ pending' = pending (+) SetToBag({[command |-> command, params |-> params]})

\* callRustCommand(command, params) up to `await fetch('/api', ...)`; the
\* answer the fetch will get is outcome
Fetch(command, outcome) ==
    /\ channel.phase # "inflight"
    /\ channel' = [phase |-> "inflight", command |-> command, outcome |-> outcome]
    /\ UNCHANGED << hostVars, peerVars, playerVars, hostBtns, peerBtns,
                    mediaDirectoryInput, pending, issued, event, lastResponse,
                    before, call, selectedFiles, notifications >>

\* callRustCommand from the answer on: the object it resolves to
Resolve ==
    /\ channel.phase = "inflight"
    /\ channel' = [phase |-> "returned", command |-> channel.command,
                   outcome |-> channel.outcome,
                   result |-> callRustCommand(channel.outcome)]
    /\ UNCHANGED << hostVars, peerVars, playerVars, hostBtns, peerBtns,
                    mediaDirectoryInput, pending, issued, event, lastResponse,
                    before, call, selectedFiles, notifications >>

\* the message the catch block reports: `${prefix}: ${error.message}`
FailureMessage(prefix, response, generic) ==
    prefix \o ": " \o OrElse(response.error, generic)

TypeErrorMessage == "Cannot read properties of undefined"

(* --------------------------- host controller -------------------------- *)

\* a start that does not run the path validator
startServerValidationNoPathCheck(port, directory) ==
    IF Len(port) = 0 THEN "Please enter a port number"
    ELSE IF Len(directory) = 0
    THEN "Please enter a directory path or select files"
    ELSE "ok"

\* the three checks startServer makes before it sends anything
startServerValidation(port, directory) ==
    IF Len(port) = 0 THEN "Please enter a port number"
    ELSE IF Len(directory) = 0
    THEN "Please enter a directory path or select files"
    ELSE IF ~isValidDirectoryPath(directory)
    THEN "Please enter a valid directory path (e.g., f:\\software\\test_media)"
    ELSE "ok"

\* a start that leaves the previous listing in place
startServerFilesKept(previous, response) == previous

\* a start that adds the returned listing to the one already loaded
startServerFilesAppended(previous, response) ==
    Arr(previous.v \o OrEmptyArray(response.files).v)

\* this.loadedFiles = response.files || []
startServerFiles(previous, response) == OrEmptyArray(response.files)

\* the user edits the media-directory field
TypeDirectory(d) ==
    /\ mediaDirectoryInput' = d
    /\ event' = NoReport
    /\ UNCHANGED << hostVars, peerVars, playerVars, hostBtns, peerBtns,
                    pending, issued >>
    /\ lastResponse' = NoResponse
    /\ before' = Session
    /\ UNCHANGED << channel, call, selectedFiles, notifications >>

\* useTestMedia()
UseTestMedia ==
    /\ mediaDirectoryInput' = Dir.useTestMedia
    /\ event' = Event("useTestMedia", "done", "success", {"info"},
                      "Test media directory selected")
    /\ UNCHANGED << hostVars, peerVars, playerVars, hostBtns, peerBtns,
                    pending, issued >>
    /\ lastResponse' = NoResponse
    /\ before' = Session
    /\ UNCHANGED << channel, call, selectedFiles, notifications >>

\* startServer() up to its await
StartServer(port) ==
    LET directory == StripQuotes(trim(mediaDirectoryInput))
        verdict == startServerValidation(port, directory)
    IN  /\ IF verdict # "ok"
           THEN /\ event' = Event("startServer", "invalid", "error",
                                  {"info", "error"}, verdict)
                /\ UNCHANGED << pending, issued >>
           ELSE /\ Submit("start-server",
                          [port |-> parseInt(port), directory |-> directory])
                /\ event' = Event("startServer", "submitted", "none", {"info"}, "")
        /\ UNCHANGED << hostVars, peerVars, playerVars, hostBtns, peerBtns,
                        mediaDirectoryInput >>
        /\ lastResponse' = NoResponse
        /\ before' = Session
        /\ UNCHANGED << channel, call, selectedFiles, notifications >>

\* startServer() from the answer to start-server on
StartServerResume(r, outcome) ==
    LET response == callRustCommand(outcome)
        files == startServerFiles(loadedFiles, response)
    IN  /\ BagIn(r, pending) /\ r.command = "start-server"
        /\ pending' = pending (-) SetToBag({r})
        /\ IF response.success
           THEN /\ serverRunning' = TRUE
                /\ startServerBtn' = TRUE
                /\ stopServerBtn' = FALSE
                /\ loadedFiles' = files
                /\ event' = IF updateLoadedFilesThrows(files)
                            THEN Catch("startServer",
                                       "Failed to start server: " \o TypeErrorMessage)
                            ELSE Event("startServer", "success", "success",
                                       {"success"}, "Server started successfully")
           ELSE /\ event' = Catch("startServer",
                                  FailureMessage("Failed to start server", response,
                                                 "Failed to start server"))
                /\ UNCHANGED << serverRunning, loadedFiles, hostBtns >>
        /\ UNCHANGED << connectedClients, peerVars, playerVars, peerBtns,
                        mediaDirectoryInput, issued >>
        /\ lastResponse' = Received(response)
        /\ before' = Session
        /\ UNCHANGED << channel, call, selectedFiles, notifications >>

\* a stop that leaves the loaded files in place
stopServerStateKeepsFiles ==
    [serverRunning |-> FALSE, loadedFiles |-> loadedFiles,
     connectedClients |-> Arr(<< >>)]

\* a stop that flips the running flag instead of clearing it
stopServerStateToggles ==
    [serverRunning |-> ~serverRunning, loadedFiles |-> Arr(<< >>),
     connectedClients |-> Arr(<< >>)]

\* what stopServer assigns on success
stopServerState ==
    [serverRunning |-> FALSE, loadedFiles |-> Arr(<< >>),
     connectedClients |-> Arr(<< >>)]

\* stopServer() up to its await
StopServer ==
    /\ Submit("stop-server", << >>)
    /\ event' = Event("stopServer", "submitted", "none", {"info"}, "")
    /\ UNCHANGED << hostVars, peerVars, playerVars, hostBtns, peerBtns,
                    mediaDirectoryInput >>
    /\ lastResponse' = NoResponse
    /\ before' = Session
    /\ UNCHANGED << channel, call, selectedFiles, notifications >>

\* stopServer() from the answer to stop-server on
StopServerResume(r, outcome) ==
    LET response == callRustCommand(outcome)
    IN  /\ BagIn(r, pending) /\ r.command = "stop-server"
        /\ pending' = pending (-) SetToBag({r})
        /\ IF response.success
           THEN /\ serverRunning' = stopServerState.serverRunning
                /\ startServerBtn' = FALSE
                /\ stopServerBtn' = TRUE
                /\ loadedFiles' = stopServerState.loadedFiles
                /\ connectedClients' = stopServerState.connectedClients
                /\ event' = Event("stopServer", "success", "info", {"info"},
                                  "Server stopped")
           ELSE /\ event' = Catch("stopServer",
                                  FailureMessage("Failed to stop server", response,
                                                 "Failed to stop server"))
                /\ UNCHANGED << hostVars, hostBtns >>
        /\ UNCHANGED << peerVars, playerVars, peerBtns, mediaDirectoryInput, issued >>
        /\ lastResponse' = Received(response)
        /\ before' = Session
        /\ UNCHANGED << channel, call, selectedFiles, notifications >>

\* streamToClients(filename) up to its await
StreamToClients(filename) ==
    /\ Submit("stream-media", [filename |-> filename])
    /\ event' = Event("streamToClients", "submitted", "none", {"info"}, "")
    /\ UNCHANGED << hostVars, peerVars, playerVars, hostBtns, peerBtns,
                    mediaDirectoryInput >>
    /\ lastResponse' = NoResponse
    /\ before' = Session
    /\ UNCHANGED << channel, call, selectedFiles, notifications >>

\* a stream trigger that drops the loaded listing once the backend accepts
StreamToClientsResumeDropsFiles(r, outcome) ==
    LET response == callRustCommand(outcome)
    IN  /\ BagIn(r, pending) /\ r.command = "stream-media"
        /\ pending' = pending (-) SetToBag({r})
        /\ event' = IF response.success
                    THEN Event("streamToClients", "success", "success",
                               {"success"}, "Streaming to clients")
                    ELSE Catch("streamToClients",
                               FailureMessage("Failed to stream media", response,
                                              "Failed to stream media"))
        /\ loadedFiles' = IF response.success THEN Arr(<< >>) ELSE loadedFiles
        /\ UNCHANGED << serverRunning, connectedClients, peerVars, playerVars,
                        hostBtns, peerBtns, mediaDirectoryInput, issued >>
        /\ lastResponse' = Received(response)
        /\ before' = Session
        /\ UNCHANGED << channel, call, selectedFiles, notifications >>

\* streamToClients(filename) from the answer to stream-media on
StreamToClientsResume(r, outcome) ==
    LET response == callRustCommand(outcome)
    IN  /\ BagIn(r, pending) /\ r.command = "stream-media"
        /\ pending' = pending (-) SetToBag({r})
        /\ event' = IF response.success
                    THEN Event("streamToClients", "success", "success",
                               {"success"}, "Streaming to clients")
                    ELSE Catch("streamToClients",
                               FailureMessage("Failed to stream media", response,
                                              "Failed to stream media"))
        /\ UNCHANGED << hostVars, peerVars, playerVars, hostBtns, peerBtns,
                        mediaDirectoryInput, issued >>
        /\ lastResponse' = Received(response)
        /\ before' = Session
        /\ UNCHANGED << channel, call, selectedFiles, notifications >>

(* --------------------------- peer controller -------------------------- *)

\* connectClient's check of its two fields
connectClientValidation(serverAddress, clientId) ==
    IF serverAddress = "" \/ clientId = ""
    THEN "Please fill in server address and client ID" ELSE "ok"

\* a connect that keeps the listing it had when the answer carries none
connectClientFilesKept(previous, response) ==
    IF response.files.t = "undefined" THEN previous ELSE response.files

\* this.availableFiles = response.files || []
connectClientFiles(previous, response) == OrEmptyArray(response.files)

\* connectClient() up to its await
ConnectClient(serverAddress, clientId) ==
    LET verdict == connectClientValidation(serverAddress, clientId)
    IN  /\ IF verdict # "ok"
           THEN /\ event' = Event("connectClient", "invalid", "error", {}, verdict)
                /\ UNCHANGED << pending, issued >>
           ELSE /\ Submit("connect-client",
                          [serverAddress |-> serverAddress, clientId |-> clientId])
                /\ event' = Event("connectClient", "submitted", "none", {"info"}, "")
        /\ UNCHANGED << hostVars, peerVars, playerVars, hostBtns, peerBtns,
                        mediaDirectoryInput >>
        /\ lastResponse' = NoResponse
        /\ before' = Session
        /\ UNCHANGED << channel, call, selectedFiles, notifications >>

\* connectClient() from the answer to connect-client on
ConnectClientResume(r, outcome) ==
    LET response == callRustCommand(outcome)
        files == connectClientFiles(availableFiles, response)
    IN  /\ BagIn(r, pending) /\ r.command = "connect-client"
        /\ pending' = pending (-) SetToBag({r})
        /\ IF response.success
           THEN /\ clientConnected' = TRUE
                /\ connectClientBtn' = TRUE
                /\ disconnectClientBtn' = FALSE
                /\ availableFiles' = files
                /\ event' = IF updateAvailableFilesThrows(files)
                            THEN Catch("connectClient",
                                       "Failed to connect: " \o TypeErrorMessage)
                            ELSE Event("connectClient", "success", "success",
                                       {"success"}, "Connected to server")
           ELSE /\ event' = Catch("connectClient",
                                  FailureMessage("Failed to connect", response,
                                                 "Failed to connect to server"))
                /\ UNCHANGED << peerVars, peerBtns >>
        /\ UNCHANGED << hostVars, playerVars, hostBtns, mediaDirectoryInput, issued >>
        /\ lastResponse' = Received(response)
        /\ before' = Session
        /\ UNCHANGED << channel, call, selectedFiles, notifications >>

\* a disconnect that leaves the player as it is
clearMediaPlayerSkipped(container) == container

\* clearMediaPlayer(): the placeholder again
clearMediaPlayer(container) == Placeholder

\* disconnectClient() up to its await
DisconnectClient ==
    /\ Submit("disconnect-client", << >>)
    /\ event' = Event("disconnectClient", "submitted", "none", {"info"}, "")
    /\ UNCHANGED << hostVars, peerVars, playerVars, hostBtns, peerBtns,
                    mediaDirectoryInput >>
    /\ lastResponse' = NoResponse
    /\ before' = Session
    /\ UNCHANGED << channel, call, selectedFiles, notifications >>

\* disconnectClient() from the answer to disconnect-client on
DisconnectClientResume(r, outcome) ==
    LET response == callRustCommand(outcome)
    IN  /\ BagIn(r, pending) /\ r.command = "disconnect-client"
        /\ pending' = pending (-) SetToBag({r})
        /\ IF response.success
           THEN /\ clientConnected' = FALSE
                /\ connectClientBtn' = FALSE
                /\ disconnectClientBtn' = TRUE
                /\ availableFiles' = Arr(<< >>)
                /\ mediaPlayerContainer' = clearMediaPlayer(mediaPlayerContainer)
                /\ playerControls' = updatePlayerControls(FALSE)
                /\ event' = Event("disconnectClient", "success", "info", {"info"},
                                  "Disconnected from server")
           ELSE /\ event' = Catch("disconnectClient",
                                  FailureMessage("Failed to disconnect", response,
                                                 "Failed to disconnect"))
                /\ UNCHANGED << peerVars, peerBtns, mediaPlayerContainer,
                                playerControls >>
        /\ UNCHANGED << hostVars, hostBtns, objectURLs, mediaDirectoryInput, issued >>
        /\ lastResponse' = Received(response)
        /\ before' = Session
        /\ UNCHANGED << channel, call, selectedFiles, notifications >>

\* requestMedia(filename) up to its await
RequestMedia(filename) ==
    /\ Submit("request-media", [filename |-> filename])
    /\ event' = Event("requestMedia", "submitted", "none", {"info"}, "")
    /\ UNCHANGED << hostVars, peerVars, playerVars, hostBtns, peerBtns,
                    mediaDirectoryInput >>
    /\ lastResponse' = NoResponse
    /\ before' = Session
    /\ UNCHANGED << channel, call, selectedFiles, notifications >>

\* requestMedia(filename) from the answer to request-media on
RequestMediaResume(r, outcome) ==
    LET response == callRustCommand(outcome)
    IN  /\ BagIn(r, pending) /\ r.command = "request-media"
        /\ pending' = pending (-) SetToBag({r})
        /\ IF response.success /\ ~loadMediaThrows(response.mediaData)
           THEN /\ objectURLs' = objectURLs + 1
                /\ mediaPlayerContainer' =
                       loadMediaInPlayer(response.mediaData, objectURLs + 1)
                /\ playerControls' = updatePlayerControls(TRUE)
                /\ event' = Event("requestMedia", "success", "success", {"success"},
                                  "Media loaded")
           ELSE /\ event' = Catch("requestMedia",
                                  IF response.success
                                  THEN "Failed to request media: " \o TypeErrorMessage
                                  ELSE FailureMessage("Failed to request media",
                                           response, "Failed to request media"))
                /\ UNCHANGED playerVars
        /\ UNCHANGED << hostVars, peerVars, hostBtns, peerBtns,
                        mediaDirectoryInput, issued >>
        /\ lastResponse' = Received(response)
        /\ before' = Session
        /\ UNCHANGED << channel, call, selectedFiles, notifications >>

(* ------------------------------- playback ----------------------------- *)

\* Furthest playback position the model follows.
MaxTime == 1

\* a play control that only acts on a paused element
playMediaPausedOnly(c) ==
    IF HasMedia(c) /\ c.playback = "paused"
    THEN [c EXCEPT !.playback = "playing"] ELSE c

\* playMedia(): media.play() on the video or audio element, if there is one
playMedia(c) == IF HasMedia(c) THEN [c EXCEPT !.playback = "playing"] ELSE c

\* a pause control that resumes a paused element
pauseMediaToggles(c) ==
    IF HasMedia(c) /\ c.playback = "playing"
    THEN [c EXCEPT !.playback = "paused"]
    ELSE IF HasMedia(c) /\ c.playback = "paused"
    THEN [c EXCEPT !.playback = "playing"] ELSE c

\* pauseMedia(): media.pause(), which changes nothing on a paused element
pauseMedia(c) ==
    IF HasMedia(c) /\ c.playback = "playing"
    THEN [c EXCEPT !.playback = "paused"] ELSE c

\* a stop control that pauses where the element is
stopMediaKeepsPosition(c) ==
    IF HasMedia(c) THEN [c EXCEPT !.playback = "stopped"] ELSE c

\* stopMedia(): media.pause(); media.currentTime = 0
stopMedia(c) ==
    IF HasMedia(c)
    THEN [c EXCEPT !.playback = "stopped", !.currentTime = 0] ELSE c

\* what the three handlers log
PlayerEvent(op, c, message) ==
    IF HasMedia(c) THEN Event(op, "done", "none", {"info"}, message)
    ELSE Event(op, "done", "none", {}, "")

\* a play control that also switches the host off
PlayMediaStopsServer ==
    /\ mediaPlayerContainer' = playMedia(mediaPlayerContainer)
    /\ event' = PlayerEvent("playMedia", mediaPlayerContainer, "Media playback started")
    /\ serverRunning' = FALSE
    /\ UNCHANGED << loadedFiles, connectedClients, peerVars, hostBtns, peerBtns,
                    playerControls, objectURLs, mediaDirectoryInput, pending, issued >>
    /\ lastResponse' = NoResponse
    /\ before' = Session
    /\ UNCHANGED << channel, call, selectedFiles, notifications >>

PlayMedia ==
    /\ mediaPlayerContainer' = playMedia(mediaPlayerContainer)
    /\ event' = PlayerEvent("playMedia", mediaPlayerContainer, "Media playback started")
    /\ UNCHANGED << hostVars, peerVars, hostBtns, peerBtns, playerControls,
                    objectURLs, mediaDirectoryInput, pending, issued >>
    /\ lastResponse' = NoResponse
    /\ before' = Session
    /\ UNCHANGED << channel, call, selectedFiles, notifications >>

PauseMedia ==
    /\ mediaPlayerContainer' = pauseMedia(mediaPlayerContainer)
    /\ event' = PlayerEvent("pauseMedia", mediaPlayerContainer, "Media playback paused")
    /\ UNCHANGED << hostVars, peerVars, hostBtns, peerBtns, playerControls,
                    objectURLs, mediaDirectoryInput, pending, issued >>
    /\ lastResponse' = NoResponse
    /\ before' = Session
    /\ UNCHANGED << channel, call, selectedFiles, notifications >>

StopMedia ==
    /\ mediaPlayerContainer' = stopMedia(mediaPlayerContainer)
    /\ event' = PlayerEvent("stopMedia", mediaPlayerContainer, "Media playback stopped")
    /\ UNCHANGED << hostVars, peerVars, hostBtns, peerBtns, playerControls,
                    objectURLs, mediaDirectoryInput, pending, issued >>
    /\ lastResponse' = NoResponse
    /\ before' = Session
    /\ UNCHANGED << channel, call, selectedFiles, notifications >>

\* the playing element's position advances
TimeUpdate ==
    /\ mediaPlayerContainer.playback = "playing"
    /\ mediaPlayerContainer.currentTime < MaxTime
    /\ mediaPlayerContainer' =
           [mediaPlayerContainer EXCEPT !.currentTime = @ + 1]
    /\ event' = NoReport
    /\ UNCHANGED << hostVars, peerVars, hostBtns, peerBtns, playerControls,
                    objectURLs, mediaDirectoryInput, pending, issued >>
    /\ lastResponse' = NoResponse
    /\ before' = Session
    /\ UNCHANGED << channel, call, selectedFiles, notifications >>

(* ------------------------------ feedback ------------------------------ *)

\* a log reset that also empties the peer's listing
ClearLogResetsFiles ==
    /\ event' = Event("clearLog", "done", "none", {}, "Log cleared")
    /\ availableFiles' = Arr(<< >>)
    /\ UNCHANGED << hostVars, clientConnected, playerVars, hostBtns, peerBtns,
                    mediaDirectoryInput, pending, issued >>
    /\ lastResponse' = NoResponse
    /\ before' = Session
    /\ UNCHANGED << channel, call, selectedFiles, notifications >>

\* clearLog()
ClearLog ==
    /\ event' = Event("clearLog", "done", "none", {}, "Log cleared")
    /\ UNCHANGED << hostVars, peerVars, playerVars, hostBtns, peerBtns,
                    mediaDirectoryInput, pending, issued >>
    /\ lastResponse' = NoResponse
    /\ before' = Session
    /\ UNCHANGED << channel, call, selectedFiles, notifications >>

(* ---------------------------- specification --------------------------- *)

Next ==
    \/ \E d \in Inputs.directory : TypeDirectory(d)
    \/ UseTestMedia
    \/ \E port \in Inputs.port : StartServer(port)
    \/ \E r \in BagToSet(pending) : \E o \in Outcomes("start-server") : StartServerResume(r, o)
    \/ StopServer
    \/ \E r \in BagToSet(pending) : \E o \in Outcomes("stop-server") : StopServerResume(r, o)
    \/ \E f \in Inputs.filename : StreamToClients(f)
    \/ \E r \in BagToSet(pending) : \E o \in Outcomes("stream-media") : StreamToClientsResume(r, o)
    \/ \E a \in Inputs.address : \E c \in Inputs.clientId : ConnectClient(a, c)
    \/ \E r \in BagToSet(pending) : \E o \in Outcomes("connect-client") : ConnectClientResume(r, o)
    \/ DisconnectClient
    \/ \E r \in BagToSet(pending) : \E o \in Outcomes("disconnect-client") : DisconnectClientResume(r, o)
    \/ \E f \in Inputs.filename : RequestMedia(f)
    \/ \E r \in BagToSet(pending) : \E o \in Outcomes("request-media") : RequestMediaResume(r, o)
    \/ PlayMedia
    \/ PauseMedia
    \/ StopMedia
    \/ TimeUpdate
    \/ ClearLog

Spec == Init /\ [][Next]_vars

\* the six command handlers and the answers to their commands
CommandNext ==
    \/ UseTestMedia
    \/ \E port \in Inputs.port : StartServer(port)
    \/ \E r \in BagToSet(pending) : \E o \in Outcomes("start-server") : StartServerResume(r, o)
    \/ StopServer
    \/ \E r \in BagToSet(pending) : \E o \in Outcomes("stop-server") : StopServerResume(r, o)
    \/ \E f \in Inputs.filename : StreamToClients(f)
    \/ \E r \in BagToSet(pending) : \E o \in Outcomes("stream-media") : StreamToClientsResume(r, o)
    \/ \E a \in Inputs.address : \E c \in Inputs.clientId : ConnectClient(a, c)
    \/ \E r \in BagToSet(pending) : \E o \in Outcomes("connect-client") : ConnectClientResume(r, o)
    \/ DisconnectClient
    \/ \E r \in BagToSet(pending) : \E o \in Outcomes("disconnect-client") : DisconnectClientResume(r, o)
    \/ \E f \in Inputs.filename : RequestMedia(f)
    \/ \E r \in BagToSet(pending) : \E o \in Outcomes("request-media") : RequestMediaResume(r, o)

\* every request that was sent gets an answer (a response or a failure of
\* the transport) in the end
CommandSpec ==
    /\ Init
    /\ [][CommandNext]_vars
    /\ WF_vars(\E r \in BagToSet(pending) : \E o \in Outcomes("start-server") : StartServerResume(r, o))
    /\ WF_vars(\E r \in BagToSet(pending) : \E o \in Outcomes("stop-server") : StopServerResume(r, o))
    /\ WF_vars(\E r \in BagToSet(pending) : \E o \in Outcomes("stream-media") : StreamToClientsResume(r, o))
    /\ WF_vars(\E r \in BagToSet(pending) : \E o \in Outcomes("connect-client") : ConnectClientResume(r, o))
    /\ WF_vars(\E r \in BagToSet(pending) : \E o \in Outcomes("disconnect-client") : DisconnectClientResume(r, o))
    /\ WF_vars(\E r \in BagToSet(pending) : \E o \in Outcomes("request-media") : RequestMediaResume(r, o))

\* isValidDirectoryPath(path) is called on its own
ValidatePath(x) ==
    /\ call = NoCall
    /\ call' = [fn |-> "isValidDirectoryPath", arg |-> x,
                result |-> isValidDirectoryPathOf(x)]
    /\ UNCHANGED << hostVars, peerVars, playerVars, hostBtns, peerBtns,
                    mediaDirectoryInput, pending, issued, event, lastResponse,
                    before, channel, selectedFiles, notifications >>

\* getMediaTypeFromFilename(filename) is called on its own
Classify(filename) ==
    /\ call = NoCall
    /\ call' = [fn |-> "getMediaTypeFromFilename", arg |-> filename,
                result |-> getMediaTypeFromFilename(filename)]
    /\ UNCHANGED << hostVars, peerVars, playerVars, hostBtns, peerBtns,
                    mediaDirectoryInput, pending, issued, event, lastResponse,
                    before, channel, selectedFiles, notifications >>

\* getMimeType(mediaType, filename) is called on its own
MimeType(mediaType, filename) ==
    /\ call = NoCall
    /\ call' = [fn |-> "getMimeType",
                arg |-> [mediaType |-> mediaType, filename |-> filename],
                result |-> getMimeType(mediaType, filename)]
    /\ UNCHANGED << hostVars, peerVars, playerVars, hostBtns, peerBtns,
                    mediaDirectoryInput, pending, issued, event, lastResponse,
                    before, channel, selectedFiles, notifications >>

\* filterMediaFiles(files) is called on its own
FilterMediaFiles(files) ==
    /\ call = NoCall
    /\ call' = [fn |-> "filterMediaFiles", arg |-> files,
                result |-> filterMediaFiles(files)]
    /\ UNCHANGED << hostVars, peerVars, playerVars, hostBtns, peerBtns,
                    mediaDirectoryInput, pending, issued, event, lastResponse,
                    before, channel, selectedFiles, notifications >>

\* the pure helper methods on their own, for every argument
FunctionNext ==
    \/ \E x \in PathValues : ValidatePath(x)
    \/ \E f \in ClassifiedNames : Classify(f)
    \/ \E k \in Inputs.mediaType, f \in ClassifiedNames : MimeType(k, f)
    \/ \E b \in BatchesUpTo(MaxBatch) : FilterMediaFiles(b)

FunctionSpec == Init /\ [][FunctionNext]_vars

\* handleFileSelection(event, selectionType), files being event.target.files
HandleFileSelection(selectionType, files) ==
    /\ call' = [fn |-> "handleFileSelection",
                arg |-> [selectionType |-> selectionType, files |-> files]]
    /\ IF Len(files) = 0
       THEN /\ event' = Event("handleFileSelection", "done", "none",
                              { "info", "warning" }, "No files selected")
            /\ UNCHANGED << selectedFiles, mediaDirectoryInput >>
       ELSE LET report == handleSelection(selectionType, files)
            IN  /\ selectedFiles' = files
                /\ mediaDirectoryInput' =
                       IF report.assigned THEN report.value
                       ELSE mediaDirectoryInput
                /\ event' = Event("handleFileSelection", "done", report.notification,
                                  report.logged \cup { "info" }, "")
    /\ UNCHANGED << hostVars, peerVars, playerVars, hostBtns, peerBtns,
                    pending, issued, lastResponse, before, channel,
                    notifications >>

\* the file inputs on their own, for every batch
SelectionNext ==
    \E t \in Inputs.selectionType, b \in Selections : HandleFileSelection(t, b)

SelectionSpec == Init /\ [][SelectionNext]_vars

\* the folder input with one file in the folder, the Start button and the
\* answer to start-server
FolderNext ==
    \/ \E kind \in { "plain", "folder", "album" } :
           \E name \in { FileName.a, FileName.txt } :
               HandleFileSelection("directory", << Picked(kind, name) >>)
    \/ \E port \in Inputs.port : StartServer(port)
    \/ \E r \in BagToSet(pending) : \E o \in Outcomes("start-server") :
           StartServerResume(r, o)

FolderSpec == Init /\ [][FolderNext]_vars

\* showNotification(message, type) up to its return: the element is
\* appended and the first timer is set
ShowNotification(type) ==
    /\ \E n \in 1..MaxNotifications :
           /\ notifications[n] = "none"
           /\ notifications' = [notifications EXCEPT ![n] = "shown"]
    /\ event' = Event("showNotification", "done", type, {}, "")
    /\ UNCHANGED << hostVars, peerVars, playerVars, hostBtns, peerBtns,
                    mediaDirectoryInput, pending, issued, lastResponse,
                    before, channel, call, selectedFiles >>

\* the first timer of showNotification, after 3000 ms: the element starts
\* to slide out and the second timer is set
FadeOut(n) ==
    /\ notifications[n] = "shown"
    /\ notifications' = [notifications EXCEPT ![n] = "fading"]
    /\ UNCHANGED << hostVars, peerVars, playerVars, hostBtns, peerBtns,
                    mediaDirectoryInput, pending, issued, event, lastResponse,
                    before, channel, call, selectedFiles >>

\* a second timer that leaves the element in the page
RemoveKeepsElement(n) ==
    /\ notifications[n] = "fading"
    /\ notifications' = [notifications EXCEPT ![n] = "faded"]
    /\ UNCHANGED << hostVars, peerVars, playerVars, hostBtns, peerBtns,
                    mediaDirectoryInput, pending, issued, event, lastResponse,
                    before, channel, call, selectedFiles >>

\* the second timer of showNotification, 300 ms later:
\* document.body.removeChild(notification)
Remove(n) ==
    /\ notifications[n] = "fading"
    /\ notifications' = [notifications EXCEPT ![n] = "none"]
    /\ UNCHANGED << hostVars, peerVars, playerVars, hostBtns, peerBtns,
                    mediaDirectoryInput, pending, issued, event, lastResponse,
                    before, channel, call, selectedFiles >>

\* notifications next to the log and to a command that may stay unanswered
NotifyNext ==
    \/ \E type \in { "info", "success", "warning", "error" } : ShowNotification(type)
    \/ \E n \in 1..MaxNotifications : FadeOut(n)
    \/ \E n \in 1..MaxNotifications : Remove(n)
    \/ ClearLog
    \/ \E command \in Commands : Fetch(command, NetworkFailure)
    \/ Resolve

\* the event loop runs every timer that was set; nothing makes the backend
\* answer
NotifySpec ==
    /\ Init
    /\ [][NotifyNext]_vars
    /\ \A n \in 1..MaxNotifications : WF_vars(FadeOut(n)) /\ WF_vars(Remove(n))

\* callRustCommand on its own, for every command and every answer
ChannelNext ==
    \/ \E command \in Commands : \E outcome \in ChannelOutcomes :
           Fetch(command, outcome)
    \/ Resolve

ChannelSpec == Init /\ [][ChannelNext]_vars

(* ------------------------------ properties ---------------------------- *)

\* the last handler run was the part of handler op that got the answer
Resumed(op) == event.op = op /\ lastResponse.received

\* the session state of a snapshot, with the player as its lifecycle state
SessionState(s) ==
    << s.serverRunning, s.loadedFiles, s.connectedClients,
       s.clientConnected, s.availableFiles,
       PlaybackState(s.mediaPlayerContainer) >>

\* the button that triggers op is disabled in snapshot s
TriggerDisabled(op, s) ==
    CASE op = "startServer"      -> s.startServerBtn
      [] op = "stopServer"       -> s.stopServerBtn
      [] op = "connectClient"    -> s.connectClientBtn
      [] op = "disconnectClient" -> s.disconnectClientBtn
      [] OTHER                   -> FALSE

\* C1: after startServer got a response with success true, serverRunning is
\* true and loadedFiles is exactly the listing of that response, the empty
\* list when it has none; nothing of the earlier listing is kept.
C1_StartReplacesLoadedFiles ==
    (Resumed("startServer") /\ lastResponse.success)
        => /\ serverRunning
           /\ loadedFiles = IF lastResponse.files.t = "undefined"
                            THEN Arr(<< >>) ELSE lastResponse.files

\* a successful start arrived while another, non-empty listing was loaded
C1_Witness ==
    /\ Resumed("startServer") /\ lastResponse.success
    /\ before.serverRunning /\ Len(before.loadedFiles.v) > 0
    /\ lastResponse.files.t = "array" /\ Len(lastResponse.files.v) > 0
    /\ lastResponse.files # before.loadedFiles

\* C2: when a controller operation ends by reporting a failure, the session
\* state (hosting flag, loaded files, connected peers, connection flag,
\* available files, playback state) is what it was before, and the control
\* that triggers the operation is still enabled.
C2_FailureLeavesStateIntact ==
    event.outcome = "error"
        => /\ SessionState(Session) = SessionState(before)
           /\ ~TriggerDisabled(event.op, before) => ~TriggerDisabled(event.op, Session)

\* C3: startServer sends start-server exactly when the port is there, the
\* trimmed and unquoted directory is non-empty and the path validator accepts
\* it; connectClient sends connect-client exactly when address and client id
\* are both non-empty; a refused invocation sends nothing, changes no session
\* state and shows an error notification.
C3_ValidationGatesSubmission ==
    [][ /\ \A port \in Inputs.port :
             (event'.op = "startServer" /\ ~lastResponse'.received
              /\ StartServer(port)) =>
               LET directory == StripQuotes(trim(mediaDirectoryInput))
                   cmd == [command |-> "start-server",
                           params |-> [port |-> parseInt(port),
                                       directory |-> directory]]
               IN  IF Len(port) > 0 /\ Len(directory) > 0
                      /\ isValidDirectoryPath(directory)
                   THEN pending' = pending (+) SetToBag({cmd})
                   ELSE /\ pending' = pending
                        /\ UNCHANGED Session
                        /\ event'.notification = "error"
        /\ \A a \in Inputs.address : \A c \in Inputs.clientId :
             (event'.op = "connectClient" /\ ~lastResponse'.received
              /\ ConnectClient(a, c)) =>
               LET cmd == [command |-> "connect-client",
                           params |-> [serverAddress |-> a, clientId |-> c]]
               IN  IF a # "" /\ c # ""
                   THEN pending' = pending (+) SetToBag({cmd})
                   ELSE /\ pending' = pending
                        /\ UNCHANGED Session
                        /\ event'.notification = "error" ]_vars

\* startServer refused a directory that is non-empty after cleaning
C3_Witness ==
    /\ event.op = "startServer" /\ event.outcome = "invalid"
    /\ event.notification = "error"
    /\ Len(StripQuotes(trim(mediaDirectoryInput))) > 0
    /\ ~isValidDirectoryPath(StripQuotes(trim(mediaDirectoryInput)))
    /\ pending = EmptyBag

\* C4: after stopServer got a response with success true, serverRunning is
\* false and loadedFiles and connectedClients are both empty, whatever they
\* held before.
C4_StopClearsHostState ==
    (Resumed("stopServer") /\ lastResponse.success)
        => /\ ~serverRunning
           /\ loadedFiles = Arr(<< >>)
           /\ connectedClients = Arr(<< >>)

\* a successful stop arrived while the server ran with files loaded
C4_Witness ==
    /\ Resumed("stopServer") /\ lastResponse.success
    /\ before.serverRunning /\ Len(before.loadedFiles.v) > 0
    /\ ~serverRunning

C6_ConnectReplacesAvailableFiles ==
    (Resumed("connectClient") /\ lastResponse.success)
        => /\ clientConnected
           /\ availableFiles = IF lastResponse.files.t = "undefined"
                               THEN Arr(<< >>) ELSE lastResponse.files

\* a successful connect without a listing arrived while files were listed
C6_Witness ==
    /\ Resumed("connectClient") /\ lastResponse.success
    /\ Len(before.availableFiles.v) > 0
    /\ lastResponse.files.t = "undefined"
    /\ availableFiles = Arr(<< >>)

\* C7: after disconnectClient got a response with success true,
\* clientConnected is false, availableFiles is empty, the player is Idle
\* whatever state it was in, and the player controls are disabled.
C7_DisconnectResetsPeer ==
    (Resumed("disconnectClient") /\ lastResponse.success)
        => /\ ~clientConnected
           /\ availableFiles = Arr(<< >>)
           /\ PlaybackState(mediaPlayerContainer) = "Idle"
           /\ playerControls = [playBtn |-> TRUE, pauseBtn |-> TRUE, stopBtn |-> TRUE]

\* a successful disconnect arrived while the player was paused
C7_Witness ==
    /\ Resumed("disconnectClient") /\ lastResponse.success
    /\ PlaybackState(before.mediaPlayerContainer) = "Paused"
    /\ PlaybackState(mediaPlayerContainer) = "Idle"

\* the response carries a payload that loadMediaInPlayer can decode
Loadable(r) == r.success /\ r.mediaData.present /\ ~atobThrows(r.mediaData.data)

\* C8 as stated: after requestMedia got a successful response with a payload,
\* the player is Playing with the payload's kind and the MIME type
\* getMimeType(kind, filename); after a failed requestMedia the player is
\* unchanged.
C8_RequestMediaPlays ==
    Resumed("requestMedia")
        => IF Loadable(lastResponse)
           THEN /\ PlaybackState(mediaPlayerContainer) = "Playing"
                /\ mediaPlayerContainer.content = lastResponse.mediaData.mediaType
                /\ mediaPlayerContainer.type =
                       getMimeType(lastResponse.mediaData.mediaType,
                                   lastResponse.mediaData.filename)
           ELSE mediaPlayerContainer = before.mediaPlayerContainer

\* C8 amended: after requestMedia got a successful response with a decodable
\* payload, a video or audio payload is in the player with its kind and MIME
\* type and is Playing, an image payload is shown with its MIME type and the
\* player is Loaded, any other kind leaves the player empty and Loaded; after
\* a failed requestMedia the player is unchanged and an error is reported.
C8_RequestMediaLoads ==
    Resumed("requestMedia")
        => LET kind == lastResponse.mediaData.mediaType
               c == mediaPlayerContainer
           IN  IF Loadable(lastResponse)
               THEN /\ event.outcome = "success"
                    /\ IF kind \in {"video", "audio", "image"}
                       THEN /\ c.content = kind
                            /\ c.type = getMimeType(kind, lastResponse.mediaData.filename)
                            /\ c.src = objectURLs
                       ELSE c.content = "empty"
                    /\ PlaybackState(c) = IF kind \in {"video", "audio"}
                                          THEN "Playing" ELSE "Loaded"
                    /\ c.currentTime = 0
               ELSE /\ event.outcome = "error"
                    /\ c = before.mediaPlayerContainer

\* the video a.mp4 arrived at an Idle player and plays as video/mp4
C8_Witness ==
    /\ Resumed("requestMedia") /\ event.outcome = "success"
    /\ PlaybackState(before.mediaPlayerContainer) = "Idle"
    /\ lastResponse.mediaData.filename = FileName.a
    /\ mediaPlayerContainer.content = "video"
    /\ mediaPlayerContainer.type = "video/mp4"
    /\ PlaybackState(mediaPlayerContainer) = "Playing"

\* C9 as stated: a load, from any playback state and for any payload kind,
\* ends in Playing.
C9_LoadAlwaysPlays ==
    (event.op = "requestMedia" /\ event.outcome = "success")
        => PlaybackState(mediaPlayerContainer) = "Playing"

\* C9 amended: a load of a video or audio payload, from any playback state,
\* ends in Playing; a load of an image or of any other kind, which puts no
\* playable element into the player, ends in Loaded.
C9_LoadPlaysMedia ==
    (event.op = "requestMedia" /\ event.outcome = "success")
        => PlaybackState(mediaPlayerContainer) =
               IF lastResponse.mediaData.mediaType \in {"video", "audio"}
               THEN "Playing" ELSE "Loaded"

\* an audio payload was loaded over a stopped player and plays
C9_Witness ==
    /\ event.op = "requestMedia" /\ event.outcome = "success"
    /\ PlaybackState(before.mediaPlayerContainer) = "Stopped"
    /\ lastResponse.mediaData.mediaType = "audio"
    /\ PlaybackState(mediaPlayerContainer) = "Playing"

\* C10 as stated: playMedia from Loaded, Paused or Stopped yields Playing;
\* from Playing or Idle it leaves the playback state unchanged.
C10_PlayFromLoadedPausedStopped ==
    event.op = "playMedia"
        => IF PlaybackState(before.mediaPlayerContainer) \in {"Loaded", "Paused", "Stopped"}
           THEN PlaybackState(mediaPlayerContainer) = "Playing"
           ELSE PlaybackState(mediaPlayerContainer) =
                    PlaybackState(before.mediaPlayerContainer)

\* C10 amended: playMedia yields Playing whenever the player holds a video
\* or audio element (Loaded, Paused, Stopped or already Playing); when there
\* is none (Idle, or Loaded with an image or unknown payload) it leaves the
\* player unchanged; it reports no error.
C10_PlayActsOnMediaElement ==
    event.op = "playMedia"
        => /\ event.outcome = "done"
           /\ IF HasMedia(before.mediaPlayerContainer)
              THEN /\ PlaybackState(mediaPlayerContainer) = "Playing"
                   /\ mediaPlayerContainer.currentTime = before.mediaPlayerContainer.currentTime
              ELSE mediaPlayerContainer = before.mediaPlayerContainer

\* play was pressed on a stopped player
C10_Witness ==
    /\ event.op = "playMedia"
    /\ PlaybackState(before.mediaPlayerContainer) = "Stopped"
    /\ PlaybackState(mediaPlayerContainer) = "Playing"

\* C11: pauseMedia on a Playing player yields Paused at the same position;
\* on an Idle, Loaded, Paused or Stopped player it changes neither the
\* playback state nor the position.
C11_PauseOnlyFromPlaying ==
    event.op = "pauseMedia"
        => IF PlaybackState(before.mediaPlayerContainer) = "Playing"
           THEN /\ PlaybackState(mediaPlayerContainer) = "Paused"
                /\ mediaPlayerContainer.currentTime =
                       before.mediaPlayerContainer.currentTime
           ELSE mediaPlayerContainer = before.mediaPlayerContainer

\* pause was pressed while the element played past its start
C11_Witness ==
    /\ event.op = "pauseMedia"
    /\ PlaybackState(before.mediaPlayerContainer) = "Playing"
    /\ before.mediaPlayerContainer.currentTime > 0
    /\ PlaybackState(mediaPlayerContainer) = "Paused"

\* C12 as stated: stopMedia from any playback state but Idle yields Stopped
\* with the position at the start; from Idle the state stays Idle.
C12_StopFromAnyNonIdle ==
    event.op = "stopMedia"
        => IF PlaybackState(before.mediaPlayerContainer) # "Idle"
           THEN /\ PlaybackState(mediaPlayerContainer) = "Stopped"
                /\ mediaPlayerContainer.currentTime = 0
           ELSE PlaybackState(mediaPlayerContainer) = "Idle"

\* C12 amended: stopMedia yields Stopped with the position at the start
\* whenever the player holds a video or audio element (Playing, Paused or
\* Stopped); when there is none (Idle, or Loaded with an image or unknown
\* payload) it leaves the player unchanged.
C12_StopActsOnMediaElement ==
    event.op = "stopMedia"
        => IF HasMedia(before.mediaPlayerContainer)
           THEN /\ PlaybackState(mediaPlayerContainer) = "Stopped"
                /\ mediaPlayerContainer.currentTime = 0
           ELSE mediaPlayerContainer = before.mediaPlayerContainer

\* stop was pressed while the element played past its start
C12_Witness ==
    /\ event.op = "stopMedia"
    /\ PlaybackState(before.mediaPlayerContainer) = "Playing"
    /\ before.mediaPlayerContainer.currentTime > 0
    /\ PlaybackState(mediaPlayerContainer) = "Stopped"
    /\ mediaPlayerContainer.currentTime = 0

\* C13: the object URL created for a payload is released by the next load
\* or clear: at most one created object URL is unreleased at any time, and
\* none while the player is Idle.
C13_HandleReleasedOnLoadOrClear ==
    /\ objectURLs <= 1
    /\ PlaybackState(mediaPlayerContainer) = "Idle" => objectURLs = 0

\* the `||` test on a string field: neither absent nor empty
Truthy(x) == OrElse(x, NoValue) # NoValue

C15_ExactlyOneTag ==
    channel.phase = "returned" =>
        LET outcome == channel.outcome
            result == channel.result
        IN  /\ \/ result.success /\ ~Truthy(result.error)
               \/ ~result.success /\ Truthy(result.error)
            /\ result.success => (outcome.t = "body" /\ outcome.body.success)

\* C16: whatever the backend answers (network failure, non-2xx status,
\* unparseable body, success false, success true with missing or malformed
\* data), the handler that gets the answer ends normally, in its success
\* branch or in its catch block; every answer without success and every
\* error thrown while the answer is used ends in the catch block, which
\* logs an error entry and shows an error notification.
C16_NoExceptionEscapes ==
    lastResponse.received =>
        /\ event.op \in {"startServer", "stopServer", "streamToClients",
                         "connectClient", "disconnectClient", "requestMedia"}
        /\ event.outcome \in {"success", "error"}
        /\ ~lastResponse.success => event.outcome = "error"
        /\ (event.op = "requestMedia" /\ loadMediaThrows(lastResponse.mediaData))
               => event.outcome = "error"
        /\ (event.op = "startServer" /\ lastResponse.success
              /\ updateLoadedFilesThrows(OrEmptyArray(lastResponse.files)))
               => event.outcome = "error"
        /\ (event.op = "connectClient" /\ lastResponse.success
              /\ updateAvailableFilesThrows(OrEmptyArray(lastResponse.files)))
               => event.outcome = "error"
        /\ event.outcome = "error" =>
               /\ event.notification = "error"
               /\ "error" \in event.logged

\* request-media was answered with success and a payload that cannot be
\* decoded; the handler reported the failure
C16_Witness ==
    /\ Resumed("requestMedia")
    /\ lastResponse.success
    /\ lastResponse.mediaData.present
    /\ atobThrows(lastResponse.mediaData.data)
    /\ event.outcome = "error"
    /\ event.notification = "error"
    /\ "error" \in event.logged

\* the command each handler sends
CommandOf(op) ==
    CASE op = "startServer"      -> "start-server"
      [] op = "stopServer"       -> "stop-server"
      [] op = "streamToClients"  -> "stream-media"
      [] op = "connectClient"    -> "connect-client"
      [] op = "disconnectClient" -> "disconnect-client"
      [] op = "requestMedia"     -> "request-media"

\* the params of a request have the shape the interface gives its command
ParamsOfInterface(req, directoryField) ==
    CASE req.command = "start-server" ->
            /\ DOMAIN req.params = {"port", "directory"}
            /\ req.params.port \in Nat
            /\ req.params.directory = StripQuotes(trim(directoryField))
      [] req.command \in {"stop-server", "disconnect-client"} ->
            req.params = << >>
      [] req.command = "connect-client" ->
            /\ DOMAIN req.params = {"serverAddress", "clientId"}
            /\ req.params.serverAddress \in Inputs.address \ {""}
            /\ req.params.clientId \in Inputs.clientId \ {""}
      [] req.command \in {"request-media", "stream-media"} ->
            /\ DOMAIN req.params = {"filename"}
            /\ req.params.filename \in Inputs.filename

\* C17: a handler run that passes its validation sends exactly one request,
\* with the command of its handler and the params of the interface table
\* (start-server: the port as an integer and the cleaned directory;
\* stop-server and disconnect-client: none; connect-client: serverAddress
\* and clientId; request-media and stream-media: filename); a run that gets
\* an answer takes its one request away and sends nothing, whatever the
\* answer; no other step sends or removes a request.
C17_OneRequestPerOperation ==
    [][ /\ event'.outcome = "submitted" =>
             /\ issued' = issued + 1
             /\ \E req \in BagToSet(pending') :
                    /\ pending' = pending (+) SetToBag({req})
                    /\ req.command = CommandOf(event'.op)
                    /\ ParamsOfInterface(req, mediaDirectoryInput)
        /\ lastResponse'.received =>
             /\ issued' = issued
             /\ \E req \in BagToSet(pending) :
                    /\ pending' = pending (-) SetToBag({req})
                    /\ req.command = CommandOf(event'.op)
        /\ (event'.outcome # "submitted" /\ ~lastResponse'.received) =>
             UNCHANGED << pending, issued >> ]_vars

\* the number of requests in flight whose command is one of commands
InFlight(commands) ==
    LET S == { req \in BagToSet(pending) : req.command \in commands }
    IN  BagCardinality([req \in S |-> CopiesIn(req, pending)])

\* C18: at no time are two start-server/stop-server requests in flight
\* together, nor two connect-client/disconnect-client requests.
C18_OneSessionCommandInFlight ==
    /\ InFlight({"start-server", "stop-server"}) <= 1
    /\ InFlight({"connect-client", "disconnect-client"}) <= 1

\* the handlers of the host controller, and those of the peer side
Ops ==
    [ host |-> {"startServer", "stopServer", "streamToClients"},
      peer |-> {"connectClient", "disconnectClient", "requestMedia",
                "playMedia", "pauseMedia", "stopMedia"} ]

\* C19: a run of startServer, stopServer or streamToClients, before or
\* after its answer, leaves clientConnected, availableFiles and the player
\* as they were; a run of connectClient, disconnectClient, requestMedia,
\* playMedia, pauseMedia or stopMedia leaves serverRunning, loadedFiles and
\* connectedClients as they were; this holds whatever requests of the
\* other side are in flight.
C19_HostAndPeerIndependent ==
    /\ event.op \in Ops.host =>
           /\ clientConnected = before.clientConnected
           /\ availableFiles = before.availableFiles
           /\ mediaPlayerContainer = before.mediaPlayerContainer
    /\ event.op \in Ops.peer =>
           /\ serverRunning = before.serverRunning
           /\ loadedFiles = before.loadedFiles
           /\ connectedClients = before.connectedClients

\* connect-client was answered with a listing while a start-server request
\* was still in flight
C19_Witness ==
    /\ Resumed("connectClient") /\ lastResponse.success
    /\ clientConnected /\ Len(availableFiles.v) > 0
    /\ InFlight({"start-server"}) = 1
    /\ ~serverRunning

\* C20 as stated: callRustCommand, logMessage, showNotification and
\* clearLog leave the session state unchanged, and the session state
\* (serverRunning, loadedFiles, connectedClients, clientConnected,
\* availableFiles, playback state) changes only in a handler run that has
\* got a command result.
C20_StateChangesOnlyAfterResult ==
    /\ event.op = "clearLog" => SessionState(Session) = SessionState(before)
    /\ event.outcome \in {"submitted", "invalid"} =>
           SessionState(Session) = SessionState(before)
    /\ SessionState(Session) # SessionState(before) => lastResponse.received

\* C20 amended: clearLog, a handler run up to its callRustCommand call, a
\* run that only notifies of refused input and a run whose answer has no
\* success (which only logs and notifies) leave the session state
\* unchanged; the session state changes only in a handler run that has got
\* a command result with success, or, for the playback state, in
\* playMedia, pauseMedia and stopMedia, which send no command.
C20_ChannelAndSinkLeaveState ==
    /\ event.op = "clearLog" => Session = before
    /\ event.outcome \in {"submitted", "invalid"} => Session = before
    /\ (lastResponse.received /\ ~lastResponse.success) => Session = before
    /\ SessionState(Session) # SessionState(before) =>
           \/ lastResponse.received /\ lastResponse.success
           \/ /\ event.op \in {"playMedia", "pauseMedia", "stopMedia"}
              /\ << serverRunning, loadedFiles, connectedClients,
                    clientConnected, availableFiles >>
                 = << before.serverRunning, before.loadedFiles,
                      before.connectedClients, before.clientConnected,
                      before.availableFiles >>

\* the log was cleared while the peer was connected and media played
C20_Witness ==
    /\ event.op = "clearLog"
    /\ clientConnected /\ Len(availableFiles.v) > 0
    /\ PlaybackState(mediaPlayerContainer) = "Playing"
    /\ Session = before

\* C21: a run of streamToClients, before its answer and after it, with
\* success or without, leaves the whole session (serverRunning,
\* loadedFiles, connectedClients, clientConnected, availableFiles, the
\* player) as it was; the resumed run reports success with a success
\* notification or failure with an error notification, and nothing else.
C21_StreamIsPureTrigger ==
    event.op = "streamToClients" =>
        /\ Session = before
        /\ lastResponse.received =>
               IF lastResponse.success
               THEN event.outcome = "success" /\ event.notification = "success"
               ELSE event.outcome = "error" /\ event.notification = "error"

\* stream-media was accepted while the host ran with a loaded listing
C21_Witness ==
    /\ Resumed("streamToClients") /\ lastResponse.success
    /\ serverRunning /\ Len(loadedFiles.v) > 0
    /\ event.outcome = "success"

\* the call under study is isValidDirectoryPath on a string
ValidatedString == call # NoCall /\ call.fn = "isValidDirectoryPath" /\ call.arg.t = "string"

\* C22: isValidDirectoryPath returns false for "", "selected", "abc" and
\* "3 media files selected" and for every value that is no string; it
\* returns true for "f:\software\test_media", "./media", "/home/user/media"
\* and "C:\Users\Name\Pictures".
C22_DocumentedExamples ==
    (call # NoCall /\ call.fn = "isValidDirectoryPath") =>
        /\ call.arg.t # "string" => ~call.result
        /\ call.arg \in { Str(<< >>), Str(Word.selected), Str(Dir.abc), Str(Example.threeFiles) }
               => ~call.result
        /\ call.arg \in { Str(Dir.useTestMedia), Str(Example.dotMedia), Str(Example.home),
                           Str(Example.pictures) }
               => call.result

\* the validator was asked about "3 media files selected" and refused it
C22_Witness ==
    /\ ValidatedString
    /\ call.arg = Str(Example.threeFiles)
    /\ ~call.result

\* the trimmed form of the validated string
Trimmed == trim(call.arg.v)

\* C23: an input whose trimmed form is shorter than 10 characters and
\* either contains "selected" in any letter case or holds no separator is
\* refused, also when it has an accepted path shape or folder name.
C23_DisplayTextRuleFirst ==
    ValidatedString =>
        ( ( /\ Len(Trimmed) < 10
            /\ \/ includesIgnoreCase(Trimmed, Word.selected)
               \/ ~hasPathSeparators(Trimmed) )
          => ~call.result )

\* a short string with "selected", a separator and a path shape was refused
C23_Witness ==
    /\ ValidatedString
    /\ Len(Trimmed) = 9
    /\ includesIgnoreCase(Trimmed, Word.selected)
    /\ hasPathSeparators(Trimmed)
    /\ pathLikePatterns(Trimmed)
    /\ ~call.result

\* C24 as stated: every string with a separator and more than 3 characters
\* is accepted.
C24_SeparatorAndLengthSuffice ==
    ValidatedString =>
        ( (hasPathSeparators(call.arg.v) /\ Len(call.arg.v) > 3) => call.result )

\* C24: every string whose trimmed form holds a separator and has more than
\* 3 characters is accepted, unless the trimmed form is shorter than 10
\* characters and contains "selected" in any letter case.
C24_SeparatorAndLengthAfterRuleTwo ==
    ValidatedString =>
        ( ( /\ hasPathSeparators(Trimmed)
            /\ Len(Trimmed) > 3
            /\ ~(Len(Trimmed) < 10 /\ includesIgnoreCase(Trimmed, Word.selected)) )
          => call.result )

\* a string was accepted for its separator and length alone
C24_Witness ==
    /\ ValidatedString
    /\ hasPathSeparators(Trimmed)
    /\ Len(Trimmed) = 4
    /\ ~pathLikePatterns(Trimmed)
    /\ call.result

\* the input is not refused by rule 1 (empty) or rule 2 (short display text)
PassesRulesOneAndTwo ==
    /\ Len(call.arg.v) > 0
    /\ ~( /\ Len(Trimmed) < 10
          /\ \/ includesIgnoreCase(Trimmed, Word.selected)
             \/ ~hasPathSeparators(Trimmed) )

\* C25 as stated: an input that passes rules 1 and 2 is accepted exactly
\* when it has a drive-letter, POSIX absolute or dot-relative prefix or a
\* folder segment followed by a separator, contains test_media, OneDrive,
\* Pictures, Documents or Downloads, or holds a separator and more than 3
\* characters.
C25_AcceptedShapes ==
    (ValidatedString /\ PassesRulesOneAndTwo) =>
        ( call.result <=>
            \/ ReWinAlt(Trimmed) \/ ReUnixAbs(Trimmed) \/ ReRelative(Trimmed)
            \/ ReFolderSep(Trimmed)
            \/ includesIgnoreCase(Trimmed, Word.testMedia)
            \/ includesIgnoreCase(Trimmed, Word.oneDrive)
            \/ includesIgnoreCase(Trimmed, Word.pictures)
            \/ includesIgnoreCase(Trimmed, Word.documents)
            \/ includesIgnoreCase(Trimmed, Word.downloads)
            \/ (hasPathSeparators(Trimmed) /\ Len(Trimmed) > 3) )

\* C25: an input that passes rules 1 and 2 is accepted exactly when it has
\* a drive-letter, POSIX absolute or dot-relative prefix or a folder segment
\* followed by a separator, holds two separators, ends with test_media,
\* contains OneDrive, Pictures, Documents or Downloads in any letter case,
\* or holds a separator and more than 3 characters.
C25_AcceptedShapesOfTheCode ==
    (ValidatedString /\ PassesRulesOneAndTwo) =>
        ( call.result <=>
            \/ ReWinAlt(Trimmed) \/ ReUnixAbs(Trimmed) \/ ReRelative(Trimmed)
            \/ ReFolderSep(Trimmed)
            \/ Cardinality({ i \in 1..Len(Trimmed) : IsSep(Trimmed[i]) }) >= 2
            \/ endsWith(Trimmed, Word.testMedia)
            \/ includesIgnoreCase(Trimmed, Word.oneDrive)
            \/ includesIgnoreCase(Trimmed, Word.pictures)
            \/ includesIgnoreCase(Trimmed, Word.documents)
            \/ includesIgnoreCase(Trimmed, Word.downloads)
            \/ (hasPathSeparators(Trimmed) /\ Len(Trimmed) > 3) )

\* a name without any separator was accepted for the folder name it holds
C25_Witness ==
    /\ ValidatedString
    /\ PassesRulesOneAndTwo
    /\ ~hasPathSeparators(Trimmed)
    /\ includesIgnoreCase(Trimmed, Word.downloads)
    /\ call.result

\* the call under study is one of the named helper
Called(fn) == call # NoCall /\ call.fn = fn

\* C26: getMediaTypeFromFilename maps a filename by its lowercased final
\* extension to video, audio or image for the eight, seven and eight
\* recognised extensions, and to unknown for every other extension.
C26_ClassifiesRecognisedExtensions ==
    Called("getMediaTypeFromFilename") =>
        LET extension == Extension(call.arg)
        IN  call.result =
                IF extension \in videoExtensions THEN "video"
                ELSE IF extension \in audioExtensions THEN "audio"
                ELSE IF extension \in imageExtensions THEN "image"
                ELSE "unknown"

\* the positions of a batch whose file has a recognised extension
Recognised(files) ==
    { i \in 1..Len(files) : Extension(files[i].name) \in mediaExtensions }

\* C27: filterMediaFiles returns the entries of the batch whose lowercased
\* extension is recognised, each as often as it occurs, unaltered and in
\* the order of the batch.
C27_FilterIsOrderedSubsequence ==
    Called("filterMediaFiles") =>
        LET kept == Recognised(call.arg)
            Nth(k) == CHOOSE i \in kept : Cardinality({ j \in kept : j < i }) = k - 1
        IN  /\ Len(call.result) = Cardinality(kept)
            /\ \A k \in 1..Len(call.result) : call.result[k] = call.arg[Nth(k)]

\* a batch with a file twice and another one between came back as the
\* file twice
C27_Witness ==
    /\ Called("filterMediaFiles")
    /\ call.arg = << File(FileName.b, << >>, << >>), File(FileName.d, << >>, << >>), File(FileName.b, << >>, << >>) >>
    /\ call.result = << File(FileName.b, << >>, << >>), File(FileName.b, << >>, << >>) >>

\* C28: getMimeType returns a type of the requested kind: the table value
\* for an extension of the table (avi, mp3 and png as documented), the
\* default of the kind for every other extension, and
\* application/octet-stream for a kind other than video, audio and image.
C28_MimeTypeOfRequestedKind ==
    Called("getMimeType") =>
        LET kind      == call.arg.mediaType
            extension == Extension(call.arg.filename)
            TableExtensions ==
                CASE kind = "video" -> { Ext.mp4, Ext.avi, Ext.mkv, Ext.mov, Ext.webm }
                  [] kind = "audio" -> { Ext.mp3, Ext.wav, Ext.flac, Ext.ogg, Ext.aac }
                  [] kind = "image" -> { Ext.jpg, Ext.jpeg, Ext.png, Ext.gif, Ext.bmp,
                                         Ext.webp }
                  [] OTHER          -> { }
            TypesOfKind ==
                CASE kind = "video" -> { "video/mp4", "video/x-msvideo", "video/x-matroska",
                                         "video/quicktime", "video/webm" }
                  [] kind = "audio" -> { "audio/mpeg", "audio/wav", "audio/flac",
                                         "audio/ogg", "audio/aac" }
                  [] kind = "image" -> { "image/jpeg", "image/png", "image/gif",
                                         "image/bmp", "image/webp" }
                  [] OTHER          -> { "application/octet-stream" }
            DefaultOfKind ==
                CASE kind = "video" -> "video/mp4"
                  [] kind = "audio" -> "audio/mpeg"
                  [] kind = "image" -> "image/jpeg"
                  [] OTHER          -> "application/octet-stream"
        IN  /\ call.result \in TypesOfKind
            /\ extension \notin TableExtensions => call.result = DefaultOfKind
            /\ (kind = "video" /\ extension = Ext.avi) => call.result = "video/x-msvideo"
            /\ (kind = "audio" /\ extension = Ext.mp3) => call.result = "audio/mpeg"
            /\ (kind = "image" /\ extension = Ext.png) => call.result = "image/png"

\* a video with an extension outside the table got the default of its kind
C28_Witness ==
    /\ Called("getMimeType")
    /\ call.arg.mediaType = "video"
    /\ Extension(call.arg.filename) = Ext.wmv
    /\ call.result = "video/mp4"

\* C29: a selected batch without any file of a recognised kind surfaces a
\* warning, through the folder input as through the file inputs; in a
\* batch with a recognised file the other files are dropped without a
\* warning or an error of their own: the selection is reported as the same
\* batch without them is.
C29_WarnsWhenNoMedia ==
    Called("handleFileSelection") =>
        /\ Recognised(call.arg.files) = {} =>
               (event.notification = "warning" \/ "warning" \in event.logged)
        /\ Recognised(call.arg.files) # {} =>
               LET alone == handleSelection(call.arg.selectionType,
                                            filterMediaFiles(call.arg.files))
               IN  /\ event.notification = alone.notification
                   /\ event.logged = alone.logged \cup { "info" }
                   /\ "error" \notin event.logged

\* the start-server answer carried the backend's listing of the scenario
\* directory
ScenarioStarted ==
    /\ Resumed("startServer")
    /\ lastResponse.success
    /\ lastResponse.files = Arr(listDirectory(ScenarioDirectory))

C31_NotificationsAreDismissed ==
    /\ \A n \in 1..MaxNotifications :
           (notifications[n] # "none") ~> (notifications[n] = "none")
    /\ [](event.op = "showNotification" => event.outcome = "done")

\* showNotification has returned, its notification is sliding out and a
\* command is unanswered
C31_Witness ==
    /\ event.op = "showNotification"
    /\ \E n \in 1..MaxNotifications : notifications[n] = "fading"
    /\ channel.phase = "inflight"

\* C32: a request leaves the requests in flight only when its answer is
\* handled by the handler that sent it, with a success or an error event
\* (nothing cancels it and no timer gives it up); a handler that has sent
\* its command has a request in flight and has not changed the session
\* state; and when every request gets an answer in the end, no request
\* stays in flight, so that every handler that sent a command ends with a
\* success or an error event.
C32_PendingUntilAnswered ==
    /\ [][ BagCardinality(pending') < BagCardinality(pending) =>
             /\ lastResponse'.received
             /\ event'.outcome \in { "success", "error" }
             /\ \E req \in BagToSet(pending) :
                    /\ pending' = pending (-) SetToBag({req})
                    /\ req.command = CommandOf(event'.op) ]_vars
    /\ [](event.outcome = "submitted" =>
             /\ pending # EmptyBag
             /\ SessionState(Session) = SessionState(before))
    /\ (pending # EmptyBag) ~> (pending = EmptyBag)

\* two commands are unanswered and the session is as it was when the
\* second was sent
C32_Witness ==
    /\ BagCardinality(pending) = 2
    /\ event.outcome = "submitted"
    /\ Session = before

\* C33: at all times, whatever commands overlap and in whatever order
\* their answers arrive, a server that is not running has no loaded files
\* and no connected clients, connected clients exist only while the server
\* runs, and a client that is not connected has no available files.
C33_ListsEmptyWhenInactive ==
    /\ ~serverRunning =>
           (loadedFiles = Arr(<< >>) /\ connectedClients = Arr(<< >>))
    /\ connectedClients # Arr(<< >>) => serverRunning
    /\ ~clientConnected => availableFiles = Arr(<< >>)

\* a stop was answered with success while a start is unanswered, after a
\* server that ran with files
C33_Witness ==
    /\ Resumed("stopServer") /\ lastResponse.success
    /\ InFlight({ "start-server" }) = 1
    /\ ~serverRunning

\* C34: at all times a client that is not connected has an idle player,
\* also when the answer to request-media arrives after the disconnect.
C34_IdleWhileDisconnected ==
    ~clientConnected => PlaybackState(mediaPlayerContainer) = "Idle"

\* C35: once no start-server or stop-server request is in flight,
\* serverRunning shows the outcome of the command sent last, in whatever
\* order the answers came: when a stop was sent after a start that is
\* still unanswered, no further command is sent and the stop succeeds, the
\* server is not running once both are answered; likewise clientConnected
\* for a disconnect sent after a connect.
C35_LastIssuedWins ==
    /\ []( ( /\ event.op = "stopServer" /\ event.outcome = "submitted"
              /\ InFlight({ "start-server" }) = 1
              /\ issued = MaxRequests )
            => []( (Resumed("stopServer") /\ lastResponse.success)
                   => [](InFlight({ "start-server", "stop-server" }) = 0
                            => ~serverRunning) ) )
    /\ []( ( /\ event.op = "disconnectClient" /\ event.outcome = "submitted"
              /\ InFlight({ "connect-client" }) = 1
              /\ issued = MaxRequests )
            => []( (Resumed("disconnectClient") /\ lastResponse.success)
                   => [](InFlight({ "connect-client", "disconnect-client" }) = 0
                            => ~clientConnected) ) )

\* C36: at all times the Start control is disabled exactly when
\* serverRunning is true and the Stop control exactly when it is false, the
\* Connect control is disabled exactly when clientConnected is true and the
\* Disconnect control exactly when it is false, and each of the play,
\* pause and stop controls is enabled exactly when the player is not Idle.
C36_ControlsMatchSession ==
    /\ startServerBtn = serverRunning
    /\ stopServerBtn = ~serverRunning
    /\ connectClientBtn = clientConnected
    /\ disconnectClientBtn = ~clientConnected
    /\ \A b \in DOMAIN playerControls :
           playerControls[b] = (PlaybackState(mediaPlayerContainer) = "Idle")

\* media was delivered and a later successful disconnect cleared the
\* player and disabled its controls again
C36_Witness ==
    /\ Resumed("disconnectClient") /\ lastResponse.success
    /\ PlaybackState(before.mediaPlayerContainer) = "Playing"
    /\ ~before.playerControls.stopBtn
    /\ playerControls.stopBtn /\ connectClientBtn = FALSE

C38_FolderThenStart ==
    [][ \A port \in Inputs.port :
            ( /\ event.op = "handleFileSelection"
              /\ call.arg.selectionType = "directory"
              /\ event.notification = "success"
              /\ Len(port) > 0
              /\ StartServer(port) )
            => /\ event'.outcome = "submitted"
               /\ \E req \in BagToSet(pending') :
                      /\ req.command = "start-server"
                      /\ req.params.directory = mediaDirectoryInput ]_vars

====
